---- MODULE Spec2Model ----
(***************************************************************************)
(* Model of servidor_relatorio_inadimplencia.py: the report build          *)
(* (obter_dados_inadimplencia -> calcular_metricas_inadimplencia ->        *)
(* gerar_html_relatorio, driven by the route relatorio_geral), the upload  *)
(* folder (upload_arquivo, download_template) and the notes store          *)
(* (salvar_observacao, carregar_observacoes).                              *)
(*                                                                         *)
(* Conventions                                                             *)
(*  - a DataFrame is [ok, cols, rows]: cols the column names in order,     *)
(*    rows the sequence of rows, each a function from column name to cell; *)
(*    None (the failure value of the functions) is the frame with ok=FALSE *)
(*  - a name the code takes apart (a sheet name, a header of the reference *)
(*    sheet) is looked up in Letras, which spells it character by          *)
(*    character; an accented letter is written as the letter and its mark  *)
(*    ("A'" for A acute, "A~" for A tilde, "C," for C cedilla)             *)
(*  - a text cell is a string, NULL standing for a missing cell (NaN/None) *)
(*  - a numeric cell is a float [cls, v]: cls is "num", "nan", "inf" or    *)
(*    "-inf"; money is held in hundredths (two decimals, as a currency     *)
(*    column is), so that round(2) of a sum of money is the sum itself;    *)
(*    results rounded to two decimals (mean, percentage) are held in       *)
(*    hundredths as well: 15.0 is 1500 and 83.33 is 8333                   *)
(*  - a directory is a function from file name to workbook; a notes file   *)
(*    is [tipo, itens]: what json.load makes of it, and its notes if it is *)
(*    a list; a note is [id, observacao], observacao a tag standing for    *)
(*    the submitted fields                                                 *)
(***************************************************************************)
EXTENDS Integers, Sequences, FiniteSets, TLC

VARIABLES
    planilha,          \* the workbook file the build finds: [existe, abas]
    pc,                \* position of relatorio_geral in the current build
    df_inadimplencia,  \* the table obter_dados_inadimplencia returned
    mapa,              \* mapa_rca_para_cod and mapa_rca_para_nome as applied
    log,               \* the warnings and errors logged by the build, in order
    df_metricas,       \* the table calcular_metricas_inadimplencia returned
    resposta,          \* what the route answered
    aba_inadi,         \* the sheet name read as the delinquency sheet (line 139)
    aba_rca,           \* the sheet name read as the reference sheet (lines 200, 235)
    entrada,           \* a name handed to _norm
    normalizado,       \* the results of _norm applied to it again and again
    pasta,             \* the workbook files of the upload folder and of the
                       \* working directory: [uploads, raiz], name -> workbook
    html_content,      \* what gerar_html_relatorio returned to the route
    resposta_upload,   \* what upload_arquivo answered last
    requisicoes,       \* the number of report requests answered so far
    anterior,          \* the results of the report build answered last
    arquivo_obs,       \* the content of the local notes file
    gist,              \* the content of the notes file of the gist
    db,                \* the rows of the table observacoes, in id order
    disponivel,        \* which backends work: [disco, gist, db]
    chamada,           \* the salvar_observacao call of each request thread
    observacoes        \* what carregar_observacoes returned last

vars_relatorio == <<planilha, pc, df_inadimplencia, mapa, log, df_metricas, resposta,
                    aba_inadi, aba_rca, html_content>>

vars_norm == <<entrada, normalizado>>

vars_servidor == <<pasta, resposta_upload, requisicoes, anterior>>

vars_notas == <<arquivo_obs, gist, db, disponivel, chamada>>

vars == <<vars_relatorio, vars_norm, vars_servidor, vars_notas, observacoes>>

\* ------------------------------------------------------------------ bounds
\* Largest number of rows of a table drawn for the ordering of the aggregate.
MaxLinhas == 3

\* Largest number of rows of a table drawn for the arithmetic of the aggregate.
MaxLinhasAritmetica == 2

\* Largest number of rows of a reference sheet with a code and a name column.
MaxLinhasRca == 3

\* Largest number of rows of a reference sheet with the explicit columns.
MaxLinhasRcaExplicita == 2

\* Largest number of rows of a delinquency sheet.
MaxLinhasInadi == 2

\* Largest number of sheets of a workbook drawn for the choice of the sheets.
MaxAbas == 3

\* Largest length of a name drawn for _norm.
MaxLetras == 3

\* Largest number of times _norm is applied to a name and then to its result.
MaxAplicacoes == 2

\* ------------------------------------------------------------------ cells
NULL == "<NULL>"

isna(x) == x = NULL

Num(n) == [cls |-> "num", v |-> n]

NaN == [cls |-> "nan", v |-> 0]

PosInf == [cls |-> "inf", v |-> 0]

NegInf == [cls |-> "-inf", v |-> 0]

isnan(x) == x.cls = "nan"

None == [ok |-> FALSE, cols |-> <<>>, rows |-> <<>>]

DataFrame(cols, rows) == [ok |-> TRUE, cols |-> cols, rows |-> rows]

Range(s) == {s[i] : i \in DOMAIN s}

\* c in df.columns
tem_coluna(df, c) == c \in Range(df.cols)

\* A dict with no key, and the two dicts of the identity map when both are empty.
DictVazio == [k \in {} |-> NULL]

MapaVazio == [cod |-> DictVazio, nome |-> DictVazio]

\* No workbook file in the upload folder nor in the working directory.
SemPlanilha == [existe |-> FALSE, abas |-> <<>>]

\* ------------------------------------------------------------------ floats
\* n/d rounded to the nearest integer, ties to the even one (numpy's round),
\* for d > 0 and any n.
RoundDiv(n, d) ==
    LET q == n \div d
        r == n % d
    IN  IF 2 * r < d THEN q
        ELSE IF 2 * r > d THEN q + 1
        ELSE IF q % 2 = 0 THEN q ELSE q + 1

\* Series.round(2) of a quotient a/b, in hundredths; a float division by zero
\* raises nothing: it gives nan (0/0), inf or -inf.
DivRound2(a, b) ==
    IF b = 0
    THEN IF a = 0 THEN NaN ELSE IF a > 0 THEN PosInf ELSE NegInf
    ELSE IF b > 0 THEN Num(RoundDiv(100 * a, b))
                  ELSE Num(RoundDiv(-(100 * a), -b))

\* -------------------------------------------------------------------- text
\* Every name the code takes apart, spelled character by character.
Letras ==
       "BASE_INADI" :> <<"B", "A", "S", "E", "_", "I", "N", "A", "D", "I">>
    @@ "Base Inadi" :> <<"B", "a", "s", "e", " ", "I", "n", "a", "d", "i">>
    @@ "INAD" :> <<"I", "N", "A", "D">>
    @@ "Sheet1" :> <<"S", "h", "e", "e", "t", "1">>
    @@ "Data" :> <<"D", "a", "t", "a">>
    @@ "BASE_RCA" :> <<"B", "A", "S", "E", "_", "R", "C", "A">>
    @@ "base rca" :> <<"b", "a", "s", "e", " ", "r", "c", "a">>
    @@ "Vendedores" :> <<"V", "e", "n", "d", "e", "d", "o", "r", "e", "s">>
    @@ "BASEINADI" :> <<"B", "A", "S", "E", "I", "N", "A", "D", "I">>
    @@ "BASEINAD" :> <<"B", "A", "S", "E", "I", "N", "A", "D">>
    @@ "BASEINADIMPLENCIA" :> <<"B", "A", "S", "E", "I", "N", "A", "D", "I", "M", "P", "L", "E", "N", "C", "I", "A">>
    @@ "INADIMPLENCIA" :> <<"I", "N", "A", "D", "I", "M", "P", "L", "E", "N", "C", "I", "A">>
    @@ "BASERCA" :> <<"B", "A", "S", "E", "R", "C", "A">>
    @@ "RCA" :> <<"R", "C", "A">>
    @@ "BASEVENDEDOR" :> <<"B", "A", "S", "E", "V", "E", "N", "D", "E", "D", "O", "R">>
    @@ "VENDEDORES" :> <<"V", "E", "N", "D", "E", "D", "O", "R", "E", "S">>
    @@ "VENDEDOR" :> <<"V", "E", "N", "D", "E", "D", "O", "R">>
    @@ "RCABASE" :> <<"R", "C", "A", "B", "A", "S", "E">>
    @@ "NOME_RCA" :> <<"N", "O", "M", "E", "_", "R", "C", "A">>
    @@ "COD" :> <<"C", "O", "D">>
    @@ "NOME" :> <<"N", "O", "M", "E">>
    @@ "MESMO_COD" :> <<"M", "E", "S", "M", "O", "_", "C", "O", "D">>
    @@ "MESMO_VEND" :> <<"M", "E", "S", "M", "O", "_", "V", "E", "N", "D">>
    @@ "Mesmo Cod." :> <<"M", "e", "s", "m", "o", " ", "C", "o", "d", ".">>
    @@ "Mesmo Vend." :> <<"M", "e", "s", "m", "o", " ", "V", "e", "n", "d", ".">>
    @@ "OBS" :> <<"O", "B", "S">>
    @@ "VALOR" :> <<"V", "A", "L", "O", "R">>
    @@ "DIAS" :> <<"D", "I", "A", "S">>
    @@ "CLIENTE" :> <<"C", "L", "I", "E", "N", "T", "E">>
    @@ "VENC" :> <<"V", "E", "N", "C">>
    @@ "DUPLIC" :> <<"D", "U", "P", "L", "I", "C">>
    @@ "COD_VENDEDOR" :> <<"C", "O", "D", "_", "V", "E", "N", "D", "E", "D", "O", "R">>
    @@ "NOME_VENDEDOR" :> <<"N", "O", "M", "E", "_", "V", "E", "N", "D", "E", "D", "O", "R">>
    @@ "VALOR_TITULO" :> <<"V", "A", "L", "O", "R", "_", "T", "I", "T", "U", "L", "O">>
    @@ "DIAS_ATRASO" :> <<"D", "I", "A", "S", "_", "A", "T", "R", "A", "S", "O">>
    @@ "VALOR_PAGO" :> <<"V", "A", "L", "O", "R", "_", "P", "A", "G", "O">>
    @@ "DATA_VENCIMENTO" :> <<"D", "A", "T", "A", "_", "V", "E", "N", "C", "I", "M", "E", "N", "T", "O">>
    @@ "NOME_CLIENTE" :> <<"N", "O", "M", "E", "_", "C", "L", "I", "E", "N", "T", "E">>
    @@ "COD_CLIENTE" :> <<"C", "O", "D", "_", "C", "L", "I", "E", "N", "T", "E">>
    @@ "STATUS_TITULO" :> <<"S", "T", "A", "T", "U", "S", "_", "T", "I", "T", "U", "L", "O">>
    @@ "DATA_PAGAMENTO" :> <<"D", "A", "T", "A", "_", "P", "A", "G", "A", "M", "E", "N", "T", "O">>
    @@ "OBSERVACOES" :> <<"O", "B", "S", "E", "R", "V", "A", "C", "O", "E", "S">>
    @@ "CODIGO" :> <<"C", "O", "D", "I", "G", "O">>
    @@ "NOME RCA" :> <<"N", "O", "M", "E", " ", "R", "C", "A">>
    @@ "MESMO COD" :> <<"M", "E", "S", "M", "O", " ", "C", "O", "D">>
    @@ "MESMO CODIGO" :> <<"M", "E", "S", "M", "O", " ", "C", "O", "D", "I", "G", "O">>
    @@ "CODIGO UNIFICADO" :> <<"C", "O", "D", "I", "G", "O", " ", "U", "N", "I", "F", "I", "C", "A", "D", "O">>
    @@ "COD UNIFICADO" :> <<"C", "O", "D", " ", "U", "N", "I", "F", "I", "C", "A", "D", "O">>
    @@ "MESMO VEND" :> <<"M", "E", "S", "M", "O", " ", "V", "E", "N", "D">>
    @@ "MESMO VENDEDOR" :> <<"M", "E", "S", "M", "O", " ", "V", "E", "N", "D", "E", "D", "O", "R">>
    @@ "NOME UNIFICADO" :> <<"N", "O", "M", "E", " ", "U", "N", "I", "F", "I", "C", "A", "D", "O">>
    @@ "VENDEDOR UNIFICADO" :> <<"V", "E", "N", "D", "E", "D", "O", "R", " ", "U", "N", "I", "F", "I", "C", "A", "D", "O">>
    @@ "INADIMPLENCIA GERAL.xlsx" :> <<"I", "N", "A", "D", "I", "M", "P", "L", "E", "N", "C", "I", "A", " ", "G", "E", "R", "A", "L", ".", "x", "l", "s", "x">>
    @@ "TEMPLATE_RESUMO_VENDAS.xlsx" :> <<"T", "E", "M", "P", "L", "A", "T", "E", "_", "R", "E", "S", "U", "M", "O", "_", "V", "E", "N", "D", "A", "S", ".", "x", "l", "s", "x">>
    @@ "RESUMO_VENDAS.xlsx" :> <<"R", "E", "S", "U", "M", "O", "_", "V", "E", "N", "D", "A", "S", ".", "x", "l", "s", "x">>
    @@ "INADIMPLENCIA GERAL" :> <<"I", "N", "A", "D", "I", "M", "P", "L", "E", "N", "C", "I", "A", " ", "G", "E", "R", "A", "L">>
    @@ "RESUMO_VENDAS" :> <<"R", "E", "S", "U", "M", "O", "_", "V", "E", "N", "D", "A", "S">>
    @@ "vendas.XLS" :> <<"v", "e", "n", "d", "a", "s", ".", "X", "L", "S">>
    @@ "notas.txt" :> <<"n", "o", "t", "a", "s", ".", "t", "x", "t">>
    @@ "dados.xlsx" :> <<"d", "a", "d", "o", "s", ".", "x", "l", "s", "x">>
    @@ "dados.csv" :> <<"d", "a", "d", "o", "s", ".", "c", "s", "v">>
    @@ "planilha" :> <<"p", "l", "a", "n", "i", "l", "h", "a">>

chars(s) == Letras[s]

\* The characters str.strip() removes at both ends.
Espacos == {" ", "\t", "\n"}

RECURSIVE lstrip(_)
lstrip(t) == IF t # <<>> /\ Head(t) \in Espacos THEN lstrip(Tail(t)) ELSE t

RECURSIVE rstrip(_)
rstrip(t) ==
    IF t # <<>> /\ t[Len(t)] \in Espacos THEN rstrip(SubSeq(t, 1, Len(t) - 1)) ELSE t

strip(t) == rstrip(lstrip(t))

Maiuscula ==
       "a" :> "A" @@ "b" :> "B" @@ "c" :> "C" @@ "d" :> "D" @@ "e" :> "E"
    @@ "f" :> "F" @@ "g" :> "G" @@ "h" :> "H" @@ "i" :> "I" @@ "j" :> "J"
    @@ "k" :> "K" @@ "l" :> "L" @@ "m" :> "M" @@ "n" :> "N" @@ "o" :> "O"
    @@ "p" :> "P" @@ "q" :> "Q" @@ "r" :> "R" @@ "s" :> "S" @@ "t" :> "T"
    @@ "u" :> "U" @@ "v" :> "V" @@ "w" :> "W" @@ "x" :> "X" @@ "y" :> "Y"
    @@ "z" :> "Z"
    @@ "a'" :> "A'" @@ "a^" :> "A^" @@ "a~" :> "A~" @@ "e'" :> "E'" @@ "e^" :> "E^"
    @@ "i'" :> "I'" @@ "o'" :> "O'" @@ "o^" :> "O^" @@ "o~" :> "O~" @@ "u'" :> "U'"
    @@ "c," :> "C,"

upper(t) == [i \in DOMAIN t |-> IF t[i] \in DOMAIN Maiuscula THEN Maiuscula[t[i]] ELSE t[i]]

\* str.replace(old, new): every occurrence of old, left to right, old not empty.
RECURSIVE replace(_, _, _)
replace(t, old, new) ==
    IF Len(t) < Len(old) THEN t
    ELSE IF SubSeq(t, 1, Len(old)) = old
         THEN new \o replace(SubSeq(t, Len(old) + 1, Len(t)), old, new)
         ELSE <<Head(t)>> \o replace(Tail(t), old, new)

\* x in t, for strings.
contains(t, x) == \E i \in 0..(Len(t) - Len(x)) : SubSeq(t, i + 1, i + Len(x)) = x

\* The accent substitutions of _norm, in the order of the chain of replace calls.
Acentos ==
    << <<"A'", "A">>, <<"A^", "A">>, <<"A~", "A">>, <<"E'", "E">>, <<"E^", "E">>,
       <<"I'", "I">>, <<"O'", "O">>, <<"O^", "O">>, <<"O~", "O">>, <<"U'", "U">>,
       <<"C,", "C">> >>

RECURSIVE replace_em_cadeia(_, _)
replace_em_cadeia(t, pares) ==
    IF pares = <<>> THEN t
    ELSE replace_em_cadeia(replace(t, <<Head(pares)[1]>>, <<Head(pares)[2]>>), Tail(pares))

\* _norm(texto): strip, upper, unaccent, then drop the spaces and the underscores.
_norm(texto) ==
    replace(replace(replace_em_cadeia(upper(strip(texto)), Acentos), <<" ">>, <<>>),
            <<"_">>, <<>>)

\* Series.astype(str) on a text cell: a missing cell becomes the string 'nan'.
astype_str(x) == IF isna(x) THEN "nan" ELSE x

fillna_sem_efeito(x, outro) == x

\* Series.fillna(other), cell by cell.
fillna(x, outro) == IF isna(x) THEN outro ELSE x

\* dict.get(k, padrao).
dict_get(d, k, padrao) == IF k \in DOMAIN d THEN d[k] ELSE padrao

\* Series.map(dict), cell by cell: a key the dict lacks maps to a missing cell.
map_dict(d, k) == dict_get(d, k, NULL)

Min(S) == CHOOSE x \in S : \A y \in S : x <= y

Max(S) == CHOOSE x \in S : \A y \in S : y <= x

\* ------------------------------------------------------------- data frames
\* df.rename(columns=m): the columns named in m take their new name, in place.
rename(df, m) ==
    LET novo(c) == IF c \in DOMAIN m THEN m[c] ELSE c
        origem(c) == CHOOSE o \in Range(df.cols) : novo(o) = c
    IN  DataFrame([i \in DOMAIN df.cols |-> novo(df.cols[i])],
                  [i \in DOMAIN df.rows |->
                      [c \in {novo(o) : o \in Range(df.cols)} |-> df.rows[i][origem(c)]]])

\* df[c] = serie, serie holding one cell per row: column c is replaced, or
\* appended when it is new.
com_coluna(df, c, serie) ==
    DataFrame(IF tem_coluna(df, c) THEN df.cols ELSE Append(df.cols, c),
              [i \in DOMAIN df.rows |-> (c :> serie[i]) @@ df.rows[i]])

empty_sem_colunas(df) == Len(df.cols) = 0

\* df.empty: no row or no column.
empty(df) == Len(df.rows) = 0 \/ Len(df.cols) = 0

\* dict(zip(df[ck].astype(str), df[cv].astype(str))): the last row of a key wins.
dict_zip_str(df, ck, cv) ==
    [k \in {astype_str(df.rows[i][ck]) : i \in DOMAIN df.rows} |->
        astype_str(df.rows[Max({i \in DOMAIN df.rows : astype_str(df.rows[i][ck]) = k})][cv])]

\* ---------------------------------------------------------------- workbook
\* xls.sheet_names.
sheet_names(xls) == [i \in DOMAIN xls.abas |-> xls.abas[i].nome]

\* pd.read_excel(arquivo_excel, sheet_name=nome); None stands for the
\* exception it raises when the workbook has no sheet of that name.
read_excel(xls, nome) ==
    IF \E i \in DOMAIN xls.abas : xls.abas[i].nome = nome
    THEN xls.abas[CHOOSE i \in DOMAIN xls.abas : xls.abas[i].nome = nome].df
    ELSE None

\* {_norm(n): n for n in abas_disponiveis}: of two sheets with one normal
\* form the later one stays.
mapa_norm_para_original(abas) ==
    LET norm == [i \in DOMAIN abas |-> _norm(chars(abas[i]))]
    IN  [k \in Range(norm) |-> abas[Max({i \in DOMAIN abas : norm[i] = k})]]

candidatos_inadi ==
    <<"BASEINADI", "BASEINAD", "BASEINADIMPLENCIA", "INADIMPLENCIA", "INADIMPLENCIA", "INAD">>

candidatos_rca ==
    <<"BASERCA", "RCA", "BASEVENDEDOR", "VENDEDORES", "VENDEDOR", "RCABASE">>

ultima_candidata(candidatos, m) ==
    LET I == {i \in DOMAIN candidatos : chars(candidatos[i]) \in DOMAIN m}
    IN  IF I = {} THEN NULL ELSE m[chars(candidatos[Max(I)])]

\* for cand in candidatos: if cand in mapa: aba = mapa[cand]; break -- NULL
\* stands for the None the loop leaves when no candidate is a key.
primeira_candidata(candidatos, m) ==
    LET I == {i \in DOMAIN candidatos : chars(candidatos[i]) \in DOMAIN m}
    IN  IF I = {} THEN NULL ELSE m[chars(candidatos[Min(I)])]

\* ------------------------------------------------ obter_dados_inadimplencia
\* The day datetime.now() gives the build, as a day number.
Hoje == 100

\* strftime('%Y-%m-%d') of the day numbered d.
strftime(d) == "dia " \o ToString(d)

\* The rename of lines 151-158.
LegadoParaCanonico ==
       "RCA" :> "COD_VENDEDOR" @@ "VALOR" :> "VALOR_TITULO" @@ "DIAS" :> "DIAS_ATRASO"
    @@ "CLIENTE" :> "NOME_CLIENTE" @@ "VENC" :> "DATA_VENCIMENTO" @@ "DUPLIC" :> "COD_CLIENTE"

\* if c not in df.columns: df[c] = serie.
se_ausente(df, c, serie) == IF tem_coluna(df, c) THEN df ELSE com_coluna(df, c, serie)

com_padrao_sempre(df, c, v) == com_coluna(df, c, [i \in DOMAIN df.rows |-> v])

\* if c not in df.columns: df[c] = v, one value for every row.
com_padrao(df, c, v) == se_ausente(df, c, [i \in DOMAIN df.rows |-> v])

\* Lines 161-165: NOME_VENDEDOR from NOME_RCA, else 'Vendedor ' + code.
com_nome_vendedor(df) ==
    IF tem_coluna(df, "NOME_RCA")
    THEN se_ausente(df, "NOME_VENDEDOR", [i \in DOMAIN df.rows |-> df.rows[i]["NOME_RCA"]])
    ELSE se_ausente(df, "NOME_VENDEDOR",
             [i \in DOMAIN df.rows |-> "Vendedor " \o astype_str(df.rows[i]["COD_VENDEDOR"])])

\* Lines 173-177: DATA_VENCIMENTO as today minus DIAS_ATRASO days.
com_data_vencimento(df) ==
    se_ausente(df, "DATA_VENCIMENTO",
        [i \in DOMAIN df.rows |->
            IF isnan(df.rows[i]["DIAS_ATRASO"]) THEN NULL
            ELSE strftime(Hoje - df.rows[i]["DIAS_ATRASO"].v)])

\* Lines 160-187: the columns added when they do not exist, in the order of
\* the code.
com_padroes(df) ==
    com_padrao(
      com_padrao(
        com_padrao(
          com_padrao(
            com_data_vencimento(
              com_padrao(
                com_padrao(com_nome_vendedor(df), "COD_CLIENTE", "Cliente"),
                "NOME_CLIENTE", "Cliente")),
            "STATUS_TITULO", "EM ABERTO"),
          "VALOR_PAGO", Num(0)),
        "DATA_PAGAMENTO", NULL),
      "OBSERVACOES", "")

\* The KeyError of line 165 (no COD_VENDEDOR to build the name from) and of
\* line 175 (no DIAS_ATRASO to build the due date from).
falta_coluna(df) ==
    \/ /\ ~tem_coluna(df, "NOME_VENDEDOR") /\ ~tem_coluna(df, "NOME_RCA")
       /\ ~tem_coluna(df, "COD_VENDEDOR")
    \/ ~tem_coluna(df, "DATA_VENCIMENTO") /\ ~tem_coluna(df, "DIAS_ATRASO")

\* Lines 150-158: the rename, only when the sheet has a column RCA.
renomear(df0) == IF tem_coluna(df0, "RCA") THEN rename(df0, LegadoParaCanonico) ELSE df0

\* Lines 149-187; None stands for the exception raised when a column the
\* defaults are built from is missing.
mapear_colunas(df0) ==
    IF falta_coluna(renomear(df0)) THEN None ELSE com_padroes(renomear(df0))

\* Lines 192-199 and 227-234: the name under which the reference sheet is read,
\* the default 'BASE_RCA' when no candidate is a sheet.
aba_rca_de(m) ==
    IF isna(primeira_candidata(candidatos_rca, m)) THEN "BASE_RCA"
    ELSE primeira_candidata(candidatos_rca, m)

ler_primeira_aba(xls, m) ==
    IF isna(primeira_candidata(candidatos_rca, m))
    THEN read_excel(xls, sheet_names(xls)[1])
    ELSE read_excel(xls, aba_rca_de(m))

\* Lines 192-200 and 227-235: the reference sheet as read, None standing for
\* the exception read_excel raises (the default name 'BASE_RCA' is tried when
\* no candidate is a sheet).
ler_base_rca(xls, m) == read_excel(xls, aba_rca_de(m))

\* Lines 201-212: the code -> name dict of the first unification.
mapa_rca_nome(df_rca) ==
    IF tem_coluna(df_rca, "RCA") /\ tem_coluna(df_rca, "NOME_RCA")
    THEN dict_zip_str(df_rca, "RCA", "NOME_RCA")
    ELSE IF tem_coluna(df_rca, "COD") /\ tem_coluna(df_rca, "NOME")
         THEN dict_zip_str(df_rca, "COD", "NOME")
         ELSE DictVazio

\* Lines 190-220: NOME_VENDEDOR rewritten from the reference sheet; whatever
\* is raised inside (no reference sheet, no COD_VENDEDOR) is swallowed and the
\* table stays as it was.
unificar_nomes(df, df_rca) ==
    LET m == mapa_rca_nome(df_rca)
    IN  IF ~df_rca.ok \/ DOMAIN m = {} \/ ~tem_coluna(df, "COD_VENDEDOR")
        THEN df
        ELSE com_coluna(df, "NOME_VENDEDOR",
                 [i \in DOMAIN df.rows |->
                     dict_get(m, astype_str(df.rows[i]["COD_VENDEDOR"]),
                              df.rows[i]["NOME_VENDEDOR"])])

\* The warning of line 213: the reference sheet was read and has neither pair
\* of standard columns.
aviso_sem_colunas_padrao(df_rca) ==
    /\ df_rca.ok
    /\ ~(tem_coluna(df_rca, "RCA") /\ tem_coluna(df_rca, "NOME_RCA"))
    /\ ~(tem_coluna(df_rca, "COD") /\ tem_coluna(df_rca, "NOME"))

\* Line 239: the form under which a header of the reference sheet is matched.
cabecalho_normalizado(c) ==
    replace(replace(replace(upper(strip(chars(c))), <<".">>, <<>>), <<"-">>, <<" ">>),
            <<" ", " ">>, <<" ">>)

\* Lines 237-240: colmap as the list of its (key, column) items in insertion
\* order; a key met again keeps its place and takes the later column.
RECURSIVE colmap_ate(_, _)
colmap_ate(cols, n) ==
    IF n = 0 THEN <<>>
    ELSE LET antes == colmap_ate(cols, n - 1)
             cu == cabecalho_normalizado(cols[n])
         IN  IF \E i \in DOMAIN antes : antes[i][1] = cu
             THEN [i \in DOMAIN antes |-> IF antes[i][1] = cu THEN <<cu, cols[n]>> ELSE antes[i]]
             ELSE Append(antes, <<cu, cols[n]>>)

colmap_de(cols) == colmap_ate(cols, Len(cols))

\* find_col(cand), lines 241-249: the column whose key is cand, else the first
\* column whose key contains cand, else None.
find_col(colmap, cand) ==
    LET exatos == {i \in DOMAIN colmap : colmap[i][1] = chars(cand)}
        contem == {i \in DOMAIN colmap : contains(colmap[i][1], chars(cand))}
    IN  IF exatos # {} THEN colmap[Min(exatos)][2]
        ELSE IF contem # {} THEN colmap[Min(contem)][2]
        ELSE NULL

\* find_col(c1) or find_col(c2) or ...
RECURSIVE find_col_ou(_, _)
find_col_ou(colmap, cands) ==
    IF cands = <<>> THEN NULL
    ELSE IF ~isna(find_col(colmap, Head(cands))) THEN find_col(colmap, Head(cands))
    ELSE find_col_ou(colmap, Tail(cands))

\* Lines 251-256.
col_rca_de(cm) == find_col_ou(cm, <<"RCA", "COD", "CODIGO">>)

col_nome_de(cm) == find_col_ou(cm, <<"NOME RCA", "NOME">>)

col_mesmo_cod_de(cm) ==
    find_col_ou(cm, <<"MESMO COD", "MESMO_COD", "MESMO CODIGO", "CODIGO UNIFICADO",
                      "COD UNIFICADO">>)

col_mesmo_vend_de(cm) ==
    find_col_ou(cm, <<"MESMO VEND", "MESMO_VEND", "MESMO VENDEDOR", "NOME UNIFICADO",
                      "VENDEDOR UNIFICADO">>)

\* Lines 265-269: the explicit MESMO_* mapping.
mapas_explicitos(df_r, col_rca, col_mesmo_cod, col_mesmo_vend) ==
    [cod  |-> dict_zip_str(df_r, col_rca, col_mesmo_cod),
     nome |-> dict_zip_str(df_r, col_rca, col_mesmo_vend)]

\* Line 275: groupby(col_nome)[col_rca].first().to_dict(): for each name the
\* code of the first row that carries it.
pivots(df_r, col_rca, col_nome) ==
    [n \in {astype_str(df_r.rows[i][col_nome]) : i \in DOMAIN df_r.rows} |->
        astype_str(df_r.rows[Min({i \in DOMAIN df_r.rows :
                                    astype_str(df_r.rows[i][col_nome]) = n})][col_rca])]

\* Lines 271-278: unification by name.
mapas_por_nome(df_r, col_rca, col_nome) ==
    LET mapa_nome_para_cod == pivots(df_r, col_rca, col_nome)
        ultima(k) == Max({i \in DOMAIN df_r.rows : astype_str(df_r.rows[i][col_rca]) = k})
    IN  [cod  |-> [k \in {astype_str(df_r.rows[i][col_rca]) : i \in DOMAIN df_r.rows} |->
                      dict_get(mapa_nome_para_cod,
                               astype_str(df_r.rows[ultima(k)][col_nome]), k)],
         nome |-> dict_zip_str(df_r, col_rca, col_nome)]

\* Lines 237-278: mapa_rca_para_cod and mapa_rca_para_nome from the reference
\* sheet.
mapas_de_unificacao(df_rca) ==
    LET cm == colmap_de(df_rca.cols)
        col_rca == col_rca_de(cm)
        col_nome == col_nome_de(cm)
        col_mesmo_cod == col_mesmo_cod_de(cm)
        col_mesmo_vend == col_mesmo_vend_de(cm)
    IN  IF isna(col_rca) THEN MapaVazio
        ELSE IF ~isna(col_mesmo_cod) /\ ~isna(col_mesmo_vend)
             THEN mapas_explicitos(df_rca, col_rca, col_mesmo_cod, col_mesmo_vend)
             ELSE IF ~isna(col_nome) THEN mapas_por_nome(df_rca, col_rca, col_nome)
                  ELSE MapaVazio

sem_unificacao_sem_nome(df) ==
    LET com_cod == com_coluna(df, "COD_UNIFICADO",
                       [i \in DOMAIN df.rows |-> astype_str(df.rows[i]["COD_VENDEDOR"])])
    IN  com_coluna(com_cod, "NOME_UNIFICADO",
                   [i \in DOMAIN df.rows |-> astype_str(df.rows[i]["COD_VENDEDOR"])])

\* Lines 285-286 and 288-289: every record keeps its own code and name.
sem_unificacao(df) ==
    LET com_cod == com_coluna(df, "COD_UNIFICADO",
                       [i \in DOMAIN df.rows |-> astype_str(df.rows[i]["COD_VENDEDOR"])])
    IN  com_coluna(com_cod, "NOME_UNIFICADO",
                   [i \in DOMAIN df.rows |-> df.rows[i]["NOME_VENDEDOR"]])

\* Lines 280-286: the two dicts applied to the table.
aplicar_mapas(df, m) ==
    IF DOMAIN m.nome # {}
    THEN LET cod_str == [i \in DOMAIN df.rows |-> astype_str(df.rows[i]["COD_VENDEDOR"])]
             com_cod == com_coluna(df, "COD_UNIFICADO",
                            [i \in DOMAIN df.rows |->
                                fillna(map_dict(m.cod, cod_str[i]), cod_str[i])])
         IN  com_coluna(com_cod, "NOME_UNIFICADO",
                 [i \in DOMAIN df.rows |->
                     fillna(map_dict(m.nome, cod_str[i]), df.rows[i]["NOME_VENDEDOR"])])
    ELSE sem_unificacao(df)

\* The identity map of lines 225-289 as it is applied: empty when the
\* reference sheet cannot be read (the except branch).
mapa_aplicado(df_rca) ==
    IF df_rca.ok THEN mapas_de_unificacao(df_rca) ELSE MapaVazio

\* Lines 225-289. None stands for the KeyError that leaves the except branch
\* when the table has no COD_VENDEDOR.
unificar(df, m) ==
    IF ~tem_coluna(df, "COD_VENDEDOR") THEN None
    ELSE aplicar_mapas(df, m)

\* Lines 126-138: the delinquency sheet, and whether it is the fallback.
aba_inadi_candidata(m) == primeira_candidata(candidatos_inadi, m)

aba_inadi_ultima(xls, m) ==
    IF isna(aba_inadi_candidata(m)) THEN sheet_names(xls)[Len(xls.abas)]
    ELSE aba_inadi_candidata(m)

\* Lines 128-138: the name under which the delinquency sheet is read, the
\* first sheet when no candidate is a sheet.
aba_inadi_de(xls, m) ==
    IF isna(aba_inadi_candidata(m)) THEN sheet_names(xls)[1] ELSE aba_inadi_candidata(m)

\* What obter_dados_inadimplencia returns with the table: the map it applied,
\* the lines it logged and the sheet names it read (NULL for a read it did
\* not come to).
Retorno(df, m, lg, rca) ==
    [df |-> df, mapa |-> m, log |-> lg, aba_inadi |-> NULL, aba_rca |-> rca]

\* Lines 287-299: the table of lines 225-289, or None with the error logged
\* when that part raised.
retornar(unificado, m, lg, rca) ==
    IF ~unificado.ok THEN Retorno(None, MapaVazio, Append(lg, "error: obter dados"), rca)
    ELSE Retorno(unificado, m, lg, rca)

tratar_parcial(lido, df_rca, lg, rca) ==
    IF ~mapear_colunas(lido).ok
    THEN Retorno(renomear(lido), MapaVazio, lg, NULL)
    ELSE retornar(unificar(unificar_nomes(mapear_colunas(lido), df_rca),
                           mapa_aplicado(df_rca)),
                  mapa_aplicado(df_rca),
                  IF aviso_sem_colunas_padrao(df_rca)
                  THEN Append(lg, "warning: BASE_RCA sem colunas padrao")
                  ELSE lg,
                  rca)

\* Lines 149-299 on the sheet as read.
tratar(lido, df_rca, lg, rca) ==
    IF ~mapear_colunas(lido).ok
    THEN Retorno(None, MapaVazio, Append(lg, "error: obter dados"), NULL)
    ELSE retornar(unificar(unificar_nomes(mapear_colunas(lido), df_rca),
                           mapa_aplicado(df_rca)),
                  mapa_aplicado(df_rca),
                  IF aviso_sem_colunas_padrao(df_rca)
                  THEN Append(lg, "warning: BASE_RCA sem colunas padrao")
                  ELSE lg,
                  rca)

\* Lines 139-299 on the sheet as read.
carregar(lido, df_rca, lg, rca) ==
    IF empty(lido)
    THEN Retorno(None, MapaVazio, Append(lg, "warning: aba BASE_INADI vazia"), NULL)
    ELSE tratar(lido, df_rca, lg, rca)

\* Lines 126-299: the sheet chosen (the first one, with a warning, when no
\* candidate is a sheet), read and loaded.
escolher_e_carregar(xls, abas) ==
    [carregar(read_excel(xls, aba_inadi_de(xls, abas)), ler_base_rca(xls, abas),
              IF isna(aba_inadi_candidata(abas))
              THEN <<"warning: aba BASE_INADI nao encontrada">>
              ELSE <<>>,
              aba_rca_de(abas))
        EXCEPT !.aba_inadi = aba_inadi_de(xls, abas)]

\* obter_dados_inadimplencia: df is None where the function returns None.
obter_dados_inadimplencia(xls) ==
    IF ~xls.existe
    THEN Retorno(None, MapaVazio, <<"error: arquivo nao encontrado">>, NULL)
    ELSE IF Len(xls.abas) = 0
         THEN Retorno(None, MapaVazio, <<"error: obter dados">>, NULL)
         ELSE escolher_e_carregar(xls, mapa_norm_para_original(sheet_names(xls)))

\* ------------------------------------------------- calcular_metricas_inadimplencia
\* The group keys of groupby([chave_cod, chave_nome]): the pairs of the rows
\* whose two key cells are both present (dropna=True, pandas' default).
chaves_do_groupby(df, chave_cod, chave_nome) ==
    {<<df.rows[i][chave_cod], df.rows[i][chave_nome]>> :
        i \in {j \in DOMAIN df.rows :
                 ~isna(df.rows[j][chave_cod]) /\ ~isna(df.rows[j][chave_nome])}}

\* The rows (by position) of the group of key k.
linhas_do_grupo(df, chave_cod, chave_nome, k) ==
    {i \in DOMAIN df.rows :
        <<df.rows[i][chave_cod], df.rows[i][chave_nome]>> = k}

\* agg 'sum': the sum of the cells that are present (0 when none is).
RECURSIVE agg_sum(_, _, _)
agg_sum(rows, I, col) ==
    IF I = {} THEN 0
    ELSE LET i == CHOOSE x \in I : TRUE
         IN  (IF isnan(rows[i][col]) THEN 0 ELSE rows[i][col].v)
             + agg_sum(rows, I \ {i}, col)

\* agg 'count': the number of cells of the column that are present.
agg_count(rows, I, col) == Cardinality({i \in I : ~isnan(rows[i][col])})

\* agg 'mean' followed by round(2): the mean of the cells that are present.
agg_mean(rows, I, col) ==
    IF agg_count(rows, I, col) = 0 THEN NaN
    ELSE DivRound2(agg_sum(rows, I, col), agg_count(rows, I, col))

\* (mutation of valor_em_aberto: the paid value is not subtracted)
valor_em_aberto_sem_pago(total, pago) == total

\* VALOR_EM_ABERTO = VALOR_TOTAL_INADIMPLENCIA - VALOR_PAGO.
valor_em_aberto(total, pago) == total - pago

\* The greatest common divisor of two naturals, not both zero.
RECURSIVE mdc(_, _)
mdc(a, b) == IF b = 0 THEN a ELSE mdc(b, a % b)

\* %_INADIMPLENCIA = (VALOR_EM_ABERTO / VALOR_TOTAL_INADIMPLENCIA * 100).round(2);
\* the quotient is taken in lowest terms, which keeps the products small.
pct_inadimplencia(aberto, total) ==
    IF total = 0 THEN DivRound2(100 * aberto, total)
    ELSE LET g == mdc(IF aberto < 0 THEN -aberto ELSE aberto,
                      IF total < 0 THEN -total ELSE total)
         IN  DivRound2(100 * (aberto \div g), total \div g)

\* One row of df_por_vendedor, with the key columns already renamed.
linha_por_vendedor(df, chave_cod, chave_nome, k) ==
    LET I     == linhas_do_grupo(df, chave_cod, chave_nome, k)
        total == agg_sum(df.rows, I, "VALOR_TITULO")
        pago  == agg_sum(df.rows, I, "VALOR_PAGO")
    IN  [COD_VENDEDOR              |-> k[1],
         NOME_VENDEDOR             |-> k[2],
         VALOR_TOTAL_INADIMPLENCIA |-> total,
         QTD_TITULOS               |-> agg_count(df.rows, I, "VALOR_TITULO"),
         VALOR_PAGO                |-> pago,
         DIAS_ATRASO_MEDIO         |-> agg_mean(df.rows, I, "DIAS_ATRASO"),
         VALOR_EM_ABERTO           |-> valor_em_aberto(total, pago),
         PCT_INADIMPLENCIA         |-> pct_inadimplencia(valor_em_aberto(total, pago), total)]

Permutacoes(S) ==
    {s \in [1..Cardinality(S) -> S] : \A i, j \in DOMAIN s : i # j => s[i] # s[j]}

\* a comes no later than b in an ascending sort with na_position='last'.
float_le(a, b) == isnan(b) \/ (~isnan(a) /\ a.v <= b.v)

\* (mutation of sort_values: ascending=False)
sort_values_descendente(S) ==
    {s \in Permutacoes(S) :
        \A i \in 1..(Cardinality(S) - 1) :
            float_le(s[i + 1].DIAS_ATRASO_MEDIO, s[i].DIAS_ATRASO_MEDIO)}

\* sort_values('DIAS_ATRASO_MEDIO', ascending=True) with the default
\* kind='quicksort', which is not a stable sort: rows with equal keys come out
\* in whatever order the build's sort leaves them, so every ascending
\* arrangement is a possible result.
sort_values(S) ==
    {s \in Permutacoes(S) :
        \A i \in 1..(Cardinality(S) - 1) :
            float_le(s[i].DIAS_ATRASO_MEDIO, s[i + 1].DIAS_ATRASO_MEDIO)}

ColunasMetricas ==
    <<"COD_VENDEDOR", "NOME_VENDEDOR", "VALOR_TOTAL_INADIMPLENCIA", "QTD_TITULOS",
      "VALOR_PAGO", "DIAS_ATRASO_MEDIO", "VALOR_EM_ABERTO", "PCT_INADIMPLENCIA">>

\* The tables calcular_metricas_inadimplencia can return for df: None when the
\* body raises (df is None, or a column it reads is missing), else the
\* per-salesperson table in one of the orders the sort can produce.
calcular_metricas_inadimplencia(df) ==
    IF ~df.ok THEN {None}
    ELSE
    LET chave_cod  == IF tem_coluna(df, "COD_UNIFICADO") THEN "COD_UNIFICADO" ELSE "COD_VENDEDOR"
        chave_nome == IF tem_coluna(df, "NOME_UNIFICADO") THEN "NOME_UNIFICADO" ELSE "NOME_VENDEDOR"
    IN  IF ~({chave_cod, chave_nome, "VALOR_TITULO", "VALOR_PAGO", "DIAS_ATRASO"}
                \subseteq Range(df.cols))
        THEN {None}
        ELSE {DataFrame(ColunasMetricas, s) :
                s \in sort_values({linha_por_vendedor(df, chave_cod, chave_nome, k) :
                                     k \in chaves_do_groupby(df, chave_cod, chave_nome)})}

\* ------------------------------------------------------------ the upload folder
\* str.lower().
lower(t) ==
    [i \in DOMAIN t |->
        IF \E c \in DOMAIN Maiuscula : Maiuscula[c] = t[i]
        THEN CHOOSE c \in DOMAIN Maiuscula : Maiuscula[c] = t[i]
        ELSE t[i]]

\* filename.rsplit('.', 1)[1]: what follows the last dot of a name that has one.
rsplit_1(t) ==
    LET p == CHOOSE i \in DOMAIN t : t[i] = "." /\ \A j \in DOMAIN t : t[j] = "." => j <= i
    IN  SubSeq(t, p + 1, Len(t))

ALLOWED_EXTENSIONS == {<<"x", "l", "s", "x">>, <<"x", "l", "s">>}

\* allowed_file(filename).
allowed_file(filename) ==
    /\ "." \in Range(chars(filename))
    /\ lower(rsplit_1(chars(filename))) \in ALLOWED_EXTENSIONS

\* The name upload_arquivo stores every upload under, and the name
\* download_template creates the template under, both in the upload folder.
NOME_DO_ENVIO == "INADIMPLENCIA GERAL.xlsx"

NOME_DO_TEMPLATE == "TEMPLATE_RESUMO_VENDAS.xlsx"

\* No file in the upload folder nor in the working directory.
PastaVazia == [uploads |-> DictVazio, raiz |-> DictVazio]

\* d[k] = v, for a directory d (file name -> workbook).
gravar_arquivo(d, k, v) == [x \in DOMAIN d \cup {k} |-> IF x = k THEN v ELSE d[x]]

\* arquivo_excel is None: no file was found.
Nenhum == [pasta |-> "", nome |-> ""]

\* The files of the upload folder the loop of lines 95-99 accepts.
aceitos_em_uploads(p) ==
    {f \in DOMAIN p.uploads :
        /\ allowed_file(f)
        /\ \/ contains(upper(chars(f)), chars("INADIMPLENCIA GERAL"))
           \/ contains(upper(chars(f)), chars("RESUMO_VENDAS"))}

\* The files arquivo_excel can name after lines 92-110: the first accepted file
\* of os.listdir(UPLOAD_FOLDER), which lists the folder in arbitrary order, so
\* any accepted file; with none, the two names of the working directory in
\* turn; with none of them, no file.
arquivo_excel(p) ==
    IF aceitos_em_uploads(p) # {}
    THEN {[pasta |-> "uploads", nome |-> f] : f \in aceitos_em_uploads(p)}
    ELSE IF "INADIMPLENCIA GERAL.xlsx" \in DOMAIN p.raiz
         THEN {[pasta |-> "raiz", nome |-> "INADIMPLENCIA GERAL.xlsx"]}
         ELSE IF "RESUMO_VENDAS.xlsx" \in DOMAIN p.raiz
              THEN {[pasta |-> "raiz", nome |-> "RESUMO_VENDAS.xlsx"]}
              ELSE {Nenhum}

\* pd.ExcelFile(arquivo_excel): the workbook stored under the name found.
ExcelFile(p, arq) == IF arq = Nenhum THEN SemPlanilha ELSE p[arq.pasta][arq.nome]

\* The workbook download_template writes: one sheet BASE_INADI of three rows.
df_exemplo ==
    DataFrame(<<"RCA", "VALOR", "DIAS", "CLIENTE", "VENC", "DUPLIC", "NOME_RCA">>,
              << [RCA |-> "976", VALOR |-> Num(100000), DIAS |-> Num(15),
                  CLIENTE |-> "Cliente A", VENC |-> "2024-09-15", DUPLIC |-> "001",
                  NOME_RCA |-> "Joao Silva"],
                 [RCA |-> "515", VALOR |-> Num(250000), DIAS |-> Num(30),
                  CLIENTE |-> "Cliente B", VENC |-> "2024-09-30", DUPLIC |-> "002",
                  NOME_RCA |-> "Maria Santos"],
                 [RCA |-> "2493", VALOR |-> Num(150000), DIAS |-> Num(45),
                  CLIENTE |-> "Cliente C", VENC |-> "2024-10-15", DUPLIC |-> "003",
                  NOME_RCA |-> "Pedro Costa"] >>)

to_excel(df, sheet_name) == [existe |-> TRUE, abas |-> <<[nome |-> sheet_name, df |-> df]>>]

\* ------------------------------------------------------------- the notes store
\* The content of a notes file, as json.load takes it: no file ("ausente"),
\* text that is not JSON ("invalido", which an empty file is), a JSON value
\* that is not a list ("objeto"), or a list of notes ("lista").
Ausente == [tipo |-> "ausente", itens |-> <<>>]

Invalido == [tipo |-> "invalido", itens |-> <<>>]

Objeto == [tipo |-> "objeto", itens |-> <<>>]

Lista(itens) == [tipo |-> "lista", itens |-> itens]

\* A stored note: the submitted fields (observacao stands for the four of
\* them) and the id salvar_observacao gave it.
Nota(id, observacao) == [id |-> id, observacao |-> observacao]

\* carregar_observacoes, step by step: the local file when it parses to a
\* list; else the gist when it answers with a file that parses; else the rows
\* of the database when it connects; else the local file when it parses at
\* all; else [].
carregar_observacoes(arq, g, d, disp) ==
    IF arq.tipo = "lista" THEN arq
    ELSE IF disp.gist /\ g.tipo \in {"lista", "objeto"} THEN g
    ELSE IF disp.db THEN Lista(d)
    ELSE IF arq.tipo = "objeto" THEN arq
    ELSE Lista(<<>>)

\* ------------------------------------------------------------- relatorio_geral
\* (mutation of Obter: the identity map is a process-wide dict that keeps the
\* entries of the builds before)
ObterComMapaAnterior ==
    /\ pc = "inicio"
    /\ \E arq \in arquivo_excel(pasta) :
       \E r \in {obter_dados_inadimplencia(ExcelFile(pasta, arq))} :
           /\ planilha' = ExcelFile(pasta, arq)
           /\ df_inadimplencia' = r.df
           /\ mapa' = [cod  |-> r.mapa.cod @@ anterior.mapa.cod,
                       nome |-> r.mapa.nome @@ anterior.mapa.nome]
           /\ log' = log \o r.log
           /\ aba_inadi' = r.aba_inadi
           /\ aba_rca' = r.aba_rca
           /\ IF r.df.ok
              THEN pc' = "dados" /\ UNCHANGED resposta
              ELSE pc' = "fim" /\ resposta' = "pagina_upload"
    /\ UNCHANGED <<df_metricas, html_content, vars_norm, vars_servidor, vars_notas,
                   observacoes>>

\* relatorio_geral, first step: df_inadimplencia = obter_dados_inadimplencia()
\* and the upload page when it is None.
Obter ==
    /\ pc = "inicio"
    /\ \E arq \in arquivo_excel(pasta) :
       \E r \in {obter_dados_inadimplencia(ExcelFile(pasta, arq))} :
           /\ planilha' = ExcelFile(pasta, arq)
           /\ df_inadimplencia' = r.df
           /\ mapa' = r.mapa
           /\ log' = log \o r.log
           /\ aba_inadi' = r.aba_inadi
           /\ aba_rca' = r.aba_rca
           /\ IF r.df.ok
              THEN pc' = "dados" /\ UNCHANGED resposta
              ELSE pc' = "fim" /\ resposta' = "pagina_upload"
    /\ UNCHANGED <<df_metricas, html_content, vars_norm, vars_servidor, vars_notas,
                   observacoes>>

\* relatorio_geral, second step: df_metricas = calcular_metricas_inadimplencia(df)
\* and the answer 500 when it is None.
Calcular ==
    /\ pc = "dados"
    /\ df_metricas' \in calcular_metricas_inadimplencia(df_inadimplencia)
    /\ IF df_metricas'.ok
       THEN pc' = "metricas" /\ UNCHANGED resposta
       ELSE pc' = "fim" /\ resposta' = "erro_metricas_500"
    /\ UNCHANGED <<planilha, df_inadimplencia, mapa, log, aba_inadi, aba_rca,
                   html_content, vars_norm, vars_servidor, vars_notas, observacoes>>

\* The columns of df_inadimplencia the body of gerar_html_relatorio reads.
colunas_do_relatorio(df) ==
    {"VALOR_TITULO", "VALOR_PAGO", "DIAS_ATRASO", "COD_CLIENTE", "NOME_CLIENTE",
     "DATA_VENCIMENTO",
     IF tem_coluna(df, "NOME_UNIFICADO") THEN "NOME_UNIFICADO" ELSE "NOME_VENDEDOR"}

\* gerar_html_relatorio: "None" where its body raises and the except of lines
\* 1709-1711 returns None, else the page. The body raises for a column that
\* is missing; any other exception (falha) has a cause the frames of this
\* model do not carry, and is an input of the step.
gerar_html_relatorio(df, falha) ==
    IF falha \/ ~(colunas_do_relatorio(df) \subseteq Range(df.cols))
    THEN "None"
    ELSE "html"

\* (mutation of Renderizar: the route does not test html_content for None)
RenderizarSemTeste ==
    /\ pc = "metricas"
    /\ observacoes' = carregar_observacoes(arquivo_obs, gist, db, disponivel)
    /\ \E falha \in BOOLEAN :
           html_content' = gerar_html_relatorio(df_inadimplencia, falha)
    /\ pc' = "fim"
    /\ resposta' = "html"
    /\ UNCHANGED <<planilha, df_inadimplencia, mapa, log, df_metricas, aba_inadi,
                   aba_rca, vars_norm, vars_servidor, vars_notas>>

\* relatorio_geral, last step: observacoes = carregar_observacoes(),
\* html_content = gerar_html_relatorio(...), the answer 500 when it is None
\* and the page otherwise.
Renderizar ==
    /\ pc = "metricas"
    /\ observacoes' = carregar_observacoes(arquivo_obs, gist, db, disponivel)
    /\ \E falha \in BOOLEAN :
           html_content' = gerar_html_relatorio(df_inadimplencia, falha)
    /\ pc' = "fim"
    /\ resposta' = IF html_content' = "None" THEN "erro_relatorio_500" ELSE "html"
    /\ UNCHANGED <<planilha, df_inadimplencia, mapa, log, df_metricas, aba_inadi,
                   aba_rca, vars_norm, vars_servidor, vars_notas>>

\* ---------------------------------------------------------- parts at rest
\* The results of the build answered last, before any build was answered.
AnteriorVazio ==
    [feito |-> FALSE, planilha |-> SemPlanilha, df |-> None, metricas |-> None,
     mapa |-> MapaVazio, aba_inadi |-> NULL, aba_rca |-> NULL]

\* carregar_observacoes was not called yet.
SemCarga == [tipo |-> "sem carga", itens |-> <<>>]

\* The server before its first request: nothing uploaded, nothing answered.
InitServidorParado ==
    /\ resposta_upload = ""
    /\ requisicoes = 0
    /\ anterior = AnteriorVazio

\* A notes store nobody writes to: one note in the local file, no gist, no
\* database, no salvar_observacao call.
InitNotasParado ==
    /\ arquivo_obs = Lista(<<Nota(1, 91)>>)
    /\ gist = Ausente
    /\ db = <<>>
    /\ disponivel = [disco |-> "ok", gist |-> FALSE, db |-> FALSE]
    /\ chamada = <<>>
    /\ observacoes = SemCarga

\* ------------------------------------------- the aggregator on its own (SpecAgg)
\* Tables as obter_dados_inadimplencia returns them (at least one row, the
\* unified columns present), reduced to the columns the aggregator reads.
ColunasAgg == <<"COD_UNIFICADO", "NOME_UNIFICADO", "VALOR_TITULO", "VALOR_PAGO", "DIAS_ATRASO">>

LinhasAritmetica ==
    [COD_UNIFICADO : {"1", "2"}, NOME_UNIFICADO : {"A"},
     VALOR_TITULO : {NaN, Num(0), Num(100), Num(200)},
     VALOR_PAGO : {Num(0), Num(50)},
     DIAS_ATRASO : {Num(10), Num(20)}]

LinhasOrdem ==
    [COD_UNIFICADO : {"1", "2"}, NOME_UNIFICADO : {"A", "B", NULL},
     VALOR_TITULO : {Num(100)},
     VALOR_PAGO : {Num(0)},
     DIAS_ATRASO : {Num(5), Num(20), Num(30)}]

SeqsAte(S, n) == UNION {[1..m -> S] : m \in 1..n}

TabelasAgg ==
    {DataFrame(ColunasAgg, r) :
        r \in SeqsAte(LinhasAritmetica, MaxLinhasAritmetica) \cup SeqsAte(LinhasOrdem, MaxLinhas)}

InitAgg ==
    /\ planilha = SemPlanilha
    /\ pc = "dados"
    /\ df_inadimplencia \in TabelasAgg
    /\ mapa = MapaVazio
    /\ log = <<>>
    /\ df_metricas = None
    /\ resposta = ""
    /\ aba_inadi = NULL
    /\ aba_rca = NULL
    /\ entrada = <<>>
    /\ normalizado = <<>>
    /\ pasta = PastaVazia
    /\ html_content = ""
    /\ InitServidorParado
    /\ InitNotasParado

NextAgg == Calcular

SpecAgg == InitAgg /\ [][NextAgg]_vars

\* ------------------------------------------------------ the report build (Spec)
SeqsDe0Ate(S, n) == UNION {[1..m -> S] : m \in 0..n}

Aba(nome, df) == [nome |-> nome, df |-> df]

Planilha(abas) == [existe |-> TRUE, abas |-> abas]

\* Reference sheets with a code and a name column and no explicit column,
\* under three pairs of headers; a cell of either column may be blank.
LinhasRcaPorNome ==
    [RCA : {"101", "102", "103"}, NOME_RCA : {"Alice", "Bob"}]
        \cup {[RCA |-> NULL, NOME_RCA |-> "Alice"], [RCA |-> "103", NOME_RCA |-> NULL]}

CabecalhosPorNome ==
    { "RCA" :> "RCA" @@ "NOME_RCA" :> "NOME_RCA",
      "RCA" :> "COD" @@ "NOME_RCA" :> "NOME",
      "RCA" :> "COD" @@ "NOME_RCA" :> "NOME_RCA" }

BasesRcaPorNome ==
    {rename(DataFrame(<<"RCA", "NOME_RCA">>, r), h) :
        r \in SeqsDe0Ate(LinhasRcaPorNome, MaxLinhasRca), h \in CabecalhosPorNome}

\* Reference sheets that also carry the explicit columns, or one of them.
LinhasRcaExplicita ==
    [RCA : {"101", "102"}, NOME_RCA : {"Alice"},
     MESMO_COD : {"900", NULL}, MESMO_VEND : {"Ana", NULL}]

CabecalhosExplicitos ==
    { "RCA" :> "RCA" @@ "NOME_RCA" :> "NOME_RCA"
          @@ "MESMO_COD" :> "MESMO_COD" @@ "MESMO_VEND" :> "MESMO_VEND",
      "RCA" :> "COD" @@ "NOME_RCA" :> "NOME"
          @@ "MESMO_COD" :> "Mesmo Cod." @@ "MESMO_VEND" :> "Mesmo Vend.",
      "RCA" :> "COD" @@ "NOME_RCA" :> "NOME_RCA"
          @@ "MESMO_COD" :> "MESMO_COD" @@ "MESMO_VEND" :> "MESMO_VEND",
      "RCA" :> "RCA" @@ "NOME_RCA" :> "NOME_RCA"
          @@ "MESMO_COD" :> "MESMO_COD" @@ "MESMO_VEND" :> "OBS" }

BasesRcaExplicitas ==
    {rename(DataFrame(<<"RCA", "NOME_RCA", "MESMO_COD", "MESMO_VEND">>, r), h) :
        r \in SeqsDe0Ate(LinhasRcaExplicita, MaxLinhasRcaExplicita),
        h \in CabecalhosExplicitos}

\* The delinquency sheet the reference sheets above are drawn against: the
\* legacy layout, one code the reference sheets know and one they do not.
InadiLegada ==
    DataFrame(<<"RCA", "VALOR", "DIAS">>,
              << [RCA |-> "102", VALOR |-> Num(100), DIAS |-> Num(10)],
                 [RCA |-> "999", VALOR |-> Num(200), DIAS |-> Num(20)] >>)

\* A delinquency sheet whose two codes the reference sheets both know.
InadiDoisCodigos ==
    DataFrame(<<"RCA", "VALOR", "DIAS">>,
              << [RCA |-> "101", VALOR |-> Num(100), DIAS |-> Num(10)],
                 [RCA |-> "102", VALOR |-> Num(200), DIAS |-> Num(20)] >>)

\* A delinquency sheet without an invoice-value column.
InadiSemValor ==
    DataFrame(<<"RCA", "DIAS">>,
              << [RCA |-> "102", DIAS |-> Num(10)],
                 [RCA |-> "999", DIAS |-> Num(20)] >>)

\* Delinquency sheets in the canonical layout and in the legacy one with a
\* name column; a code or a name cell may be blank, and the sheet may have no
\* row at all.
LinhasInadi ==
    [COD_VENDEDOR : {"102", "999", NULL}, NOME_VENDEDOR : {"Zed", NULL},
     VALOR_TITULO : {Num(100)}, DIAS_ATRASO : {Num(10)}]

CabecalhosInadi ==
    { "COD_VENDEDOR" :> "COD_VENDEDOR",
      "COD_VENDEDOR" :> "RCA" @@ "NOME_VENDEDOR" :> "NOME_RCA"
          @@ "VALOR_TITULO" :> "VALOR" @@ "DIAS_ATRASO" :> "DIAS" }

BasesInadi ==
    {rename(DataFrame(<<"COD_VENDEDOR", "NOME_VENDEDOR", "VALOR_TITULO", "DIAS_ATRASO">>, r), h) :
        r \in SeqsDe0Ate(LinhasInadi, MaxLinhasInadi), h \in CabecalhosInadi}

\* The reference sheets the delinquency sheets above are drawn against.
BaseRcaExemplo ==
    DataFrame(<<"RCA", "NOME_RCA">>,
              << [RCA |-> "101", NOME_RCA |-> "Alice"],
                 [RCA |-> "102", NOME_RCA |-> "Alice"],
                 [RCA |-> "103", NOME_RCA |-> "Bob"] >>)

BaseRcaExplicitaExemplo ==
    DataFrame(<<"COD", "NOME", "Mesmo Cod.", "Mesmo Vend.">>,
              << ("COD" :> "101" @@ "NOME" :> "Alice"
                    @@ "Mesmo Cod." :> "900" @@ "Mesmo Vend." :> "Ana"),
                 ("COD" :> "102" @@ "NOME" :> "Alicia"
                    @@ "Mesmo Cod." :> "900" @@ "Mesmo Vend." :> "Ana") >>)

BaseRcaSemColunas == DataFrame(<<"OBS">>, << [OBS |-> "x"] >>)

\* Workbooks of one to MaxAbas sheets under names the candidate lists know in
\* one spelling or another, or do not know, in every order; a sheet named as
\* a reference sheet holds a reference table, any other a delinquency table.
NomesDeAbas ==
    {"BASE_INADI", "Base Inadi", "INAD", "Sheet1", "Data", "BASE_RCA", "base rca",
     "Vendedores"}

NomesDeBaseRca == {"BASE_RCA", "base rca", "Vendedores"}

AbaDeNome(nome) ==
    Aba(nome, IF nome \in NomesDeBaseRca THEN BaseRcaExemplo ELSE InadiLegada)

PlanilhasPorNome ==
    {Planilha([i \in DOMAIN nomes |-> AbaDeNome(nomes[i])]) :
        nomes \in {s \in SeqsAte(NomesDeAbas, MaxAbas) :
                      \A i, j \in DOMAIN s : s[i] = s[j] => i = j}}

\* Delinquency sheets of two rows under every layout of headers: each column
\* under its legacy header, under its canonical header, or absent (the code
\* and the value are never absent).
Leiautes ==
    [cod : {"RCA", "COD_VENDEDOR"},
     nome : {"NOME_RCA", "NOME_VENDEDOR", NULL},
     val : {"VALOR", "VALOR_TITULO"},
     dias : {"DIAS", "DIAS_ATRASO", NULL},
     venc : {"VENC", "DATA_VENCIMENTO", NULL},
     cli_cod : {"DUPLIC", "COD_CLIENTE", NULL},
     cli_nome : {"CLIENTE", "NOME_CLIENTE", NULL},
     resto : BOOLEAN]

\* The columns of a layout, in sheet order: the header and the two cells.
CelulasDe(l) ==
    << <<l.cod, "102", "999">>,
       <<l.nome, "Zed", "Yan">>,
       <<l.val, Num(100), Num(200)>>,
       <<l.dias, Num(10), Num(20)>>,
       <<l.venc, "dia 70", "dia 60">>,
       <<l.cli_cod, "C1", "C2">>,
       <<l.cli_nome, "Cli Um", "Cli Dois">>,
       <<IF l.resto THEN "STATUS_TITULO" ELSE NULL, "PAGO", "EM ABERTO">>,
       <<IF l.resto THEN "VALOR_PAGO" ELSE NULL, Num(50), Num(0)>>,
       <<IF l.resto THEN "DATA_PAGAMENTO" ELSE NULL, "dia 95", NULL>>,
       <<IF l.resto THEN "OBSERVACOES" ELSE NULL, "obs", "">> >>

InadiDeLeiaute(l) ==
    LET presente(t) == t[1] # NULL
        cs == SelectSeq(CelulasDe(l), presente)
    IN  DataFrame([j \in DOMAIN cs |-> cs[j][1]],
                  [i \in 1..2 |->
                      [c \in {cs[j][1] : j \in DOMAIN cs} |->
                          cs[CHOOSE j \in DOMAIN cs : cs[j][1] = c][i + 1]]])

PlanilhasPorLeiaute == {Planilha(<<Aba("BASE_INADI", InadiDeLeiaute(l))>>) : l \in Leiautes}

Planilhas ==
         {Planilha(<<Aba("BASE_INADI", InadiLegada), Aba("BASE_RCA", b)>>) :
             b \in BasesRcaPorNome \cup BasesRcaExplicitas}
    \cup {Planilha(<<Aba("BASE_INADI", d), Aba("BASE_RCA", b)>>) :
             d \in BasesInadi,
             b \in {BaseRcaExemplo, BaseRcaExplicitaExemplo, BaseRcaSemColunas}}
    \cup {Planilha(<<Aba("BASE_INADI", d)>>) : d \in BasesInadi}
    \cup PlanilhasPorNome
    \cup PlanilhasPorLeiaute
    \cup {Planilha(<<Aba("BASE_INADI", InadiDoisCodigos), Aba("BASE_RCA", b)>>) :
             b \in BasesRcaPorNome}
    \cup {Planilha(<<Aba("BASE_INADI", InadiSemValor)>>)}

\* Upload folders: empty, or holding one workbook under the name of the upload.
Pastas ==
    {PastaVazia}
    \cup {[uploads |-> gravar_arquivo(DictVazio, NOME_DO_ENVIO, p), raiz |-> DictVazio] :
             p \in Planilhas}

Init ==
    /\ pasta \in Pastas
    /\ planilha = SemPlanilha
    /\ pc = "inicio"
    /\ df_inadimplencia = None
    /\ mapa = MapaVazio
    /\ log = <<>>
    /\ df_metricas = None
    /\ resposta = ""
    /\ aba_inadi = NULL
    /\ aba_rca = NULL
    /\ entrada = <<>>
    /\ normalizado = <<>>
    /\ html_content = ""
    /\ InitServidorParado
    /\ InitNotasParado

Next == Obter \/ Calcular \/ Renderizar

Spec == Init /\ [][Next]_vars

\* ------------------------------------------- the server over requests (SpecServidor)
\* Largest number of report requests answered after the first one.
MaxRequisicoes == 2

\* The workbooks a user uploads: two with a reference sheet each (the pairs of
\* code and name, the explicit unification columns), one with no sheet at all.
Envios ==
    {Planilha(<<Aba("BASE_INADI", InadiLegada), Aba("BASE_RCA", BaseRcaExemplo)>>),
     Planilha(<<Aba("BASE_INADI", InadiDoisCodigos),
                Aba("BASE_RCA", BaseRcaExplicitaExemplo)>>),
     Planilha(<<>>)}

\* The names an upload arrives under: a workbook, another kind of file, none.
NomesEnviados == {"dados.xlsx", "dados.csv", ""}

\* The folders the server starts with: nothing; files the discovery ignores
\* in the upload folder and a workbook in the working directory.
PastasDoServidor ==
    {PastaVazia,
     [uploads |-> [f \in {"notas.txt", "vendas.XLS"} |-> Planilha(<<>>)],
      raiz |-> gravar_arquivo(DictVazio, "RESUMO_VENDAS.xlsx",
                  Planilha(<<Aba("BASE_INADI", InadiLegada)>>))]}

\* The next request for the report: the route starts again, its locals unset;
\* the results of the build just answered are kept for comparison.
NovaRequisicao ==
    /\ pc = "fim"
    /\ requisicoes < MaxRequisicoes
    /\ requisicoes' = requisicoes + 1
    /\ anterior' = [feito |-> TRUE, planilha |-> planilha, df |-> df_inadimplencia,
                    metricas |-> df_metricas, mapa |-> mapa,
                    aba_inadi |-> aba_inadi, aba_rca |-> aba_rca]
    /\ pc' = "inicio"
    /\ planilha' = SemPlanilha
    /\ df_inadimplencia' = None
    /\ df_metricas' = None
    /\ mapa' = MapaVazio
    /\ aba_inadi' = NULL
    /\ aba_rca' = NULL
    /\ html_content' = ""
    /\ resposta' = ""
    /\ UNCHANGED <<log, vars_norm, pasta, resposta_upload, vars_notas, observacoes>>

\* upload_arquivo: a file with an allowed name is stored in the upload folder
\* under the name of the upload, over the file of that name if there is one.
Upload ==
    /\ \E filename \in NomesEnviados, arquivo \in Envios :
           IF filename = ""
           THEN resposta_upload' = "nenhum_arquivo" /\ UNCHANGED pasta
           ELSE IF allowed_file(filename)
                THEN /\ pasta' = [pasta EXCEPT
                                     !.uploads = gravar_arquivo(@, NOME_DO_ENVIO, arquivo)]
                     /\ resposta_upload' = "sucesso"
                ELSE resposta_upload' = "tipo_nao_permitido" /\ UNCHANGED pasta
    /\ UNCHANGED <<vars_relatorio, vars_norm, requisicoes, anterior, vars_notas,
                   observacoes>>

\* download_template: the template is written to the upload folder when it
\* is not there, and sent.
DownloadTemplate ==
    /\ pasta' = IF NOME_DO_TEMPLATE \in DOMAIN pasta.uploads
                THEN pasta
                ELSE [pasta EXCEPT
                        !.uploads = gravar_arquivo(@, NOME_DO_TEMPLATE,
                                                   to_excel(df_exemplo, "BASE_INADI"))]
    /\ UNCHANGED <<vars_relatorio, vars_norm, resposta_upload, requisicoes, anterior,
                   vars_notas, observacoes>>

InitServidor ==
    /\ pasta \in PastasDoServidor
    /\ planilha = SemPlanilha
    /\ pc = "inicio"
    /\ df_inadimplencia = None
    /\ mapa = MapaVazio
    /\ log = <<>>
    /\ df_metricas = None
    /\ resposta = ""
    /\ aba_inadi = NULL
    /\ aba_rca = NULL
    /\ entrada = <<>>
    /\ normalizado = <<>>
    /\ html_content = ""
    /\ InitServidorParado
    /\ InitNotasParado

NextServidor ==
    Obter \/ Calcular \/ Renderizar \/ NovaRequisicao \/ Upload \/ DownloadTemplate

SpecServidor == InitServidor /\ [][NextServidor]_vars

\* ------------------------------------------------ the notes store (SpecNotas)
\* Largest number of salvar_observacao calls of the one thread of SpecNotas.
MaxChamadas == 2

\* Largest number of salvar_observacao calls of each thread when two run.
MaxChamadasConcorrentes == 1

\* The request threads of the threaded server that save notes at once.
Threads == {1, 2}

\* A thread that has not called salvar_observacao yet.
Ociosa ==
    [pc |-> "ocioso", k |-> 0, observacao |-> 0, atuais |-> Lista(<<>>),
     antes |-> Ausente, sucesso_json |-> FALSE, retorno |-> FALSE]

\* salvar_observacao(observacao) is called in thread t: sucesso_json = False,
\* atuais = []. The k-th note of thread t is tagged 10 t + k; antes keeps the
\* content of the file at the call, for comparison.
Chamar(t) ==
    /\ chamada[t].pc \in {"ocioso", "retornou"}
    /\ chamada[t].k < (IF Cardinality(DOMAIN chamada) > 1
                       THEN MaxChamadasConcorrentes ELSE MaxChamadas)
    /\ chamada' = [chamada EXCEPT ![t] =
                      [pc |-> "ler", k |-> @.k + 1, observacao |-> 10 * t + @.k + 1,
                       atuais |-> Lista(<<>>), antes |-> arquivo_obs,
                       sucesso_json |-> FALSE, retorno |-> FALSE]]
    /\ UNCHANGED <<vars_relatorio, vars_norm, vars_servidor, arquivo_obs, gist, db,
                   disponivel, observacoes>>

\* Lines 412-418: atuais = json.load(f) when the file exists, [] when it does
\* not parse.
Ler(t) ==
    /\ chamada[t].pc = "ler"
    /\ chamada' = [chamada EXCEPT
                      ![t].atuais = IF arquivo_obs.tipo \in {"ausente", "invalido"}
                                    THEN Lista(<<>>) ELSE arquivo_obs,
                      ![t].pc = "acrescentar"]
    /\ UNCHANGED <<vars_relatorio, vars_norm, vars_servidor, arquivo_obs, gist, db,
                   disponivel, observacoes>>

\* Lines 419-423: the id is len(atuais) + 1 for a list and 1 otherwise, what
\* is not a list becomes [], and the note is appended.
Acrescentar(t) ==
    /\ chamada[t].pc = "acrescentar"
    /\ chamada' = [chamada EXCEPT
                      ![t].atuais =
                          IF @.tipo = "lista"
                          THEN Lista(Append(@.itens,
                                            Nota(Len(@.itens) + 1, chamada[t].observacao)))
                          ELSE Lista(<<Nota(1, chamada[t].observacao)>>),
                      ![t].pc = "gravar"]
    /\ UNCHANGED <<vars_relatorio, vars_norm, vars_servidor, arquivo_obs, gist, db,
                   disponivel, observacoes>>

\* Lines 424-429: open(OBSERVACOES_FILE, 'w') and json.dump(atuais). On a
\* file that cannot be opened for writing the open raises and the file stays;
\* on a full disk the open has emptied the file when the dump raises; either
\* way the except logs and sucesso_json stays False.
Gravar(t) ==
    /\ chamada[t].pc = "gravar"
    /\ arquivo_obs' = IF disponivel.disco = "ok" THEN chamada[t].atuais
                      ELSE IF disponivel.disco = "cheio" THEN Invalido
                      ELSE arquivo_obs
    /\ chamada' = [chamada EXCEPT
                      ![t].sucesso_json = (disponivel.disco = "ok"),
                      ![t].pc = "replicar"]
    /\ UNCHANGED <<vars_relatorio, vars_norm, vars_servidor, gist, db, disponivel,
                   observacoes>>

\* Lines 430-486: the gist file is replaced by json.dumps(atuais) when the
\* gist answers; the note is inserted in the database when it connects, and
\* the call returns True then, sucesso_json otherwise.
Replicar(t) ==
    /\ chamada[t].pc = "replicar"
    /\ gist' = IF disponivel.gist THEN chamada[t].atuais ELSE gist
    /\ db' = IF disponivel.db
             THEN Append(db, Nota(Len(db) + 1, chamada[t].observacao))
             ELSE db
    /\ chamada' = [chamada EXCEPT
                      ![t].retorno = (disponivel.db \/ chamada[t].sucesso_json),
                      ![t].pc = "retornou"]
    /\ UNCHANGED <<vars_relatorio, vars_norm, vars_servidor, arquivo_obs, disponivel,
                   observacoes>>

\* carregar_observacoes() is called (the route /observacoes).
Carregar ==
    /\ observacoes' = carregar_observacoes(arquivo_obs, gist, db, disponivel)
    /\ UNCHANGED <<vars_relatorio, vars_norm, vars_servidor, vars_notas>>

\* The contents the notes file starts with.
ArquivosIniciais ==
    {Ausente, Invalido, Objeto, Lista(<<>>), Lista(<<Nota(1, 91)>>),
     Lista(<<Nota(1, 91), Nota(2, 92)>>)}

\* Which backends work, for the whole behaviour: the disk takes the write,
\* refuses the open for writing, or is full; the gist answers or not (or is
\* not configured); the database connects or not.
Disponibilidades ==
    [disco : {"ok", "somente_leitura", "cheio"}, gist : BOOLEAN, db : BOOLEAN]

\* The report build is not running.
InitRelatorioParado ==
    /\ pasta = PastaVazia
    /\ planilha = SemPlanilha
    /\ pc = "fim"
    /\ df_inadimplencia = None
    /\ mapa = MapaVazio
    /\ log = <<>>
    /\ df_metricas = None
    /\ resposta = ""
    /\ aba_inadi = NULL
    /\ aba_rca = NULL
    /\ entrada = <<>>
    /\ normalizado = <<>>
    /\ html_content = ""
    /\ InitServidorParado

InitNotas ==
    /\ InitRelatorioParado
    /\ arquivo_obs \in ArquivosIniciais
    /\ gist \in {Ausente, Lista(<<Nota(1, 91)>>)}
    /\ db \in {<<>>, <<Nota(1, 91)>>}
    /\ disponivel \in Disponibilidades
    /\ chamada = [t \in {1} |-> Ociosa]
    /\ observacoes = SemCarga

NextNotas ==
    \/ \E t \in DOMAIN chamada : Chamar(t)
    \/ \E t \in DOMAIN chamada : Ler(t)
    \/ \E t \in DOMAIN chamada : Acrescentar(t)
    \/ \E t \in DOMAIN chamada : Gravar(t)
    \/ \E t \in DOMAIN chamada : Replicar(t)
    \/ Carregar

SpecNotas == InitNotas /\ [][NextNotas]_vars

\* Two request threads saving at once.
InitConcorrente ==
    /\ InitRelatorioParado
    /\ arquivo_obs \in ArquivosIniciais
    /\ gist = Ausente
    /\ db = <<>>
    /\ disponivel \in Disponibilidades
    /\ chamada = [t \in Threads |-> Ociosa]
    /\ observacoes = SemCarga

SpecConcorrente == InitConcorrente /\ [][NextNotas]_vars

\* ------------------------------------------------------ _norm on its own (SpecNorm)
\* The characters of the names drawn: a lower-case and an upper-case letter,
\* an accented letter, the two characters _norm drops, and a tab and a
\* newline.
AlfabetoNorm == {"a", "B", "a~", " ", "_", "\t", "\n"}

InitNorm ==
    /\ entrada \in SeqsDe0Ate(AlfabetoNorm, MaxLetras)
    /\ normalizado = <<>>
    /\ planilha = SemPlanilha
    /\ pc = "fim"
    /\ df_inadimplencia = None
    /\ mapa = MapaVazio
    /\ log = <<>>
    /\ df_metricas = None
    /\ resposta = ""
    /\ aba_inadi = NULL
    /\ aba_rca = NULL
    /\ pasta = PastaVazia
    /\ html_content = ""
    /\ InitServidorParado
    /\ InitNotasParado

\* One call of _norm: on the name first, then on the result of the call before.
Normalizar ==
    /\ Len(normalizado) < MaxAplicacoes
    /\ normalizado' = Append(normalizado,
                             _norm(IF normalizado = <<>> THEN entrada
                                   ELSE normalizado[Len(normalizado)]))
    /\ UNCHANGED <<vars_relatorio, entrada, vars_servidor, vars_notas, observacoes>>

NextNorm == Normalizar

SpecNorm == InitNorm /\ [][NextNorm]_vars

\* --------------------------------------------------- claims on the aggregator
Abs(x) == IF x < 0 THEN -x ELSE x

\* The records of the input table that carry the key of the aggregated row m.
RegistrosDe(m) ==
    {i \in DOMAIN df_inadimplencia.rows :
        /\ df_inadimplencia.rows[i]["COD_UNIFICADO"] = m.COD_VENDEDOR
        /\ df_inadimplencia.rows[i]["NOME_UNIFICADO"] = m.NOME_VENDEDOR}

\* The sum of column col over the first n records that carry the key of m,
\* a missing cell adding nothing.
RECURSIVE SomaDe(_, _, _)
SomaDe(m, n, col) ==
    IF n = 0 THEN 0
    ELSE SomaDe(m, n - 1, col)
         + (IF n \in RegistrosDe(m) /\ df_inadimplencia.rows[n][col].cls = "num"
            THEN df_inadimplencia.rows[n][col].v ELSE 0)

NumRegistros == Len(df_inadimplencia.rows)

\* x (in hundredths) is num/den rounded to two decimals, den > 0.
Arredondado2(x, num, den) ==
    x.cls = "num" /\ 2 * Abs(x.v * den - 100 * num) <= den

\* C1: the records are grouped by (unified code, unified name): every record
\* with both keys present is in exactly one aggregated row; and every
\* aggregated row carries the sum of the invoice values of its records, the sum
\* of their paid values, open = total - paid, percent = open / total * 100
\* rounded to two decimals (where the total is not 0) and the mean of the
\* overdue days rounded to two decimals.
C1_Agregacao ==
    pc = "metricas" =>
        LET rows == df_inadimplencia.rows
            out  == df_metricas.rows
        IN  /\ \A i \in DOMAIN rows :
                (~isna(rows[i]["COD_UNIFICADO"]) /\ ~isna(rows[i]["NOME_UNIFICADO"]))
                    => \E j \in DOMAIN out : i \in RegistrosDe(out[j])
            /\ \A j, k \in DOMAIN out :
                (out[j].COD_VENDEDOR = out[k].COD_VENDEDOR
                    /\ out[j].NOME_VENDEDOR = out[k].NOME_VENDEDOR) => j = k
            /\ \A j \in DOMAIN out :
                LET m == out[j]
                    T == SomaDe(m, NumRegistros, "VALOR_TITULO")
                    P == SomaDe(m, NumRegistros, "VALOR_PAGO")
                    D == SomaDe(m, NumRegistros, "DIAS_ATRASO")
                    n == Cardinality(RegistrosDe(m))
                IN  /\ n > 0
                    /\ m.VALOR_TOTAL_INADIMPLENCIA = T
                    /\ m.VALOR_PAGO = P
                    /\ m.VALOR_EM_ABERTO = T - P
                    /\ T > 0 => Arredondado2(m.PCT_INADIMPLENCIA, 100 * (T - P), T)
                    /\ Arredondado2(m.DIAS_ATRASO_MEDIO, D, n)

\* C1 witness: the example of the spec, invoices 100 and 200, paid 50 and 0,
\* days 10 and 20 under one identity, aggregated to 300, 50, 250, 83.33, 15.0.
C1_Witness ==
    /\ pc = "metricas"
    /\ Len(df_inadimplencia.rows) = 2
    /\ df_inadimplencia.rows[1]["VALOR_TITULO"] = Num(100)
    /\ df_inadimplencia.rows[2]["VALOR_TITULO"] = Num(200)
    /\ df_inadimplencia.rows[1]["VALOR_PAGO"] = Num(50)
    /\ df_inadimplencia.rows[2]["VALOR_PAGO"] = Num(0)
    /\ df_inadimplencia.rows[1]["DIAS_ATRASO"] = Num(10)
    /\ df_inadimplencia.rows[2]["DIAS_ATRASO"] = Num(20)
    /\ Len(df_metricas.rows) = 1
    /\ df_metricas.rows[1].VALOR_TOTAL_INADIMPLENCIA = 300
    /\ df_metricas.rows[1].VALOR_PAGO = 50
    /\ df_metricas.rows[1].VALOR_EM_ABERTO = 250
    /\ df_metricas.rows[1].PCT_INADIMPLENCIA = Num(8333)
    /\ df_metricas.rows[1].DIAS_ATRASO_MEDIO = Num(1500)

\* C2 (as claimed): every aggregated row whose total delinquent value is 0
\* carries the null sentinel as its percentage, never an infinity, whatever
\* the sum of the paid values is.
C2_TotalZeroNulo ==
    pc = "metricas" =>
        \A j \in DOMAIN df_metricas.rows :
            df_metricas.rows[j].VALOR_TOTAL_INADIMPLENCIA = 0
                => df_metricas.rows[j].PCT_INADIMPLENCIA = NaN

\* C3: the aggregated table is ascending in the mean of the overdue days: of
\* two adjacent rows the earlier has a mean less than or equal to the later's.
C3_OrdemAscendente ==
    pc = "metricas" =>
        \A j \in 1..(Len(df_metricas.rows) - 1) :
            /\ df_metricas.rows[j].DIAS_ATRASO_MEDIO.cls = "num"
            /\ df_metricas.rows[j + 1].DIAS_ATRASO_MEDIO.cls = "num"
            /\ df_metricas.rows[j].DIAS_ATRASO_MEDIO.v
                   <= df_metricas.rows[j + 1].DIAS_ATRASO_MEDIO.v

\* C3 witness: three groups met with means 30, 5, 20 come out as 5, 20, 30.
C3_Witness ==
    /\ pc = "metricas"
    /\ Len(df_inadimplencia.rows) = 3
    /\ df_inadimplencia.rows[1]["DIAS_ATRASO"] = Num(30)
    /\ df_inadimplencia.rows[2]["DIAS_ATRASO"] = Num(5)
    /\ df_inadimplencia.rows[3]["DIAS_ATRASO"] = Num(20)
    /\ Len(df_metricas.rows) = 3
    /\ df_metricas.rows[1].DIAS_ATRASO_MEDIO = Num(500)
    /\ df_metricas.rows[2].DIAS_ATRASO_MEDIO = Num(2000)
    /\ df_metricas.rows[3].DIAS_ATRASO_MEDIO = Num(3000)

\* The position of the first record of the group of the aggregated row m.
PrimeiroRegistro(m) ==
    CHOOSE i \in RegistrosDe(m) : \A k \in RegistrosDe(m) : i <= k

\* C4 (as claimed): aggregated rows with equal means keep the order in which
\* their groups are first met in the record table.
C4_EmpateOrdemDeEncontro ==
    pc = "metricas" =>
        \A j, k \in DOMAIN df_metricas.rows :
            (j < k /\ df_metricas.rows[j].DIAS_ATRASO_MEDIO
                        = df_metricas.rows[k].DIAS_ATRASO_MEDIO)
                => PrimeiroRegistro(df_metricas.rows[j])
                       < PrimeiroRegistro(df_metricas.rows[k])

\* C5 (as claimed): QTD_TITULOS of an aggregated row is the number of records
\* of its group, records without an invoice value included.
C5_QtdTitulosContaRegistros ==
    pc = "metricas" =>
        \A j \in DOMAIN df_metricas.rows :
            df_metricas.rows[j].QTD_TITULOS
                = Cardinality(RegistrosDe(df_metricas.rows[j]))

\* ------------------------------------------------- claims on the report build
\* The delinquency sheet and the reference sheet of the workbook, as the load
\* read them; None before the load, and for a sheet the workbook does not have.
AbaInadi == read_excel(planilha, aba_inadi)

AbaRca == read_excel(planilha, aba_rca)

InadiSemLinhas == AbaInadi.ok /\ Len(AbaInadi.cols) > 0 /\ Len(AbaInadi.rows) = 0

\* C6 as stated: the report build for a workbook whose delinquency sheet has
\* no rows reaches the aggregator (the load hands it a table) and gets an
\* empty result rather than a failure value.
C6_VaziaChegaAoAgregador ==
    (InadiSemLinhas /\ pc # "inicio") =>
        /\ pc \in {"dados", "metricas"}
        /\ df_inadimplencia.ok
        /\ pc = "metricas" => (df_metricas.ok /\ df_metricas.rows = <<>>)

\* C6, amended: the aggregator handed a table of zero rows yields an empty
\* aggregated table and not an error; but the report build for a workbook
\* whose delinquency sheet has no rows never reaches the aggregator: the load
\* logs a warning and returns the failure value, no aggregated table is
\* computed, and the route answers with the upload page.
C6_VaziaNaoChegaAoAgregador ==
    /\ calcular_metricas_inadimplencia(DataFrame(ColunasAgg, <<>>))
           = {DataFrame(ColunasMetricas, <<>>)}
    /\ (InadiSemLinhas /\ pc # "inicio") =>
           /\ pc = "fim"
           /\ df_inadimplencia = None
           /\ df_metricas = None
           /\ resposta = "pagina_upload"
           /\ log = <<"warning: aba BASE_INADI vazia">>

C6_Witness ==
    /\ InadiSemLinhas
    /\ read_excel(planilha, "BASE_RCA").ok
    /\ pc = "fim"
    /\ resposta = "pagina_upload"

\* C7: every record of every table obter_dados_inadimplencia returns has a
\* non-null unified code and a non-null unified name, whatever the reference
\* sheet is.
C7_UnificadosNaoNulos ==
    df_inadimplencia.ok =>
        \A i \in DOMAIN df_inadimplencia.rows :
            /\ ~isna(df_inadimplencia.rows[i]["COD_UNIFICADO"])
            /\ ~isna(df_inadimplencia.rows[i]["NOME_UNIFICADO"])

\* The column of df whose header, put in the form of line 239, is the first
\* of cabecalhos that heads a column; NULL when none does.
ColunaDe(df, cabecalhos) ==
    LET presentes == {i \in DOMAIN cabecalhos :
                        \E c \in Range(df.cols) :
                            cabecalho_normalizado(c) = chars(cabecalhos[i])}
    IN  IF presentes = {} THEN NULL
        ELSE CHOOSE c \in Range(df.cols) :
                 cabecalho_normalizado(c) = chars(cabecalhos[Min(presentes)])

\* The raw-code, raw-name, same-code-as and same-person-as columns of the
\* reference sheet, by the headers the load names for each.
ColunaCodigo == ColunaDe(AbaRca, <<"RCA", "COD", "CODIGO">>)

ColunaNome == ColunaDe(AbaRca, <<"NOME RCA", "NOME_RCA", "NOME">>)

ColunaMesmoCod ==
    ColunaDe(AbaRca, <<"MESMO COD", "MESMO_COD", "MESMO CODIGO", "CODIGO UNIFICADO",
                       "COD UNIFICADO">>)

ColunaMesmoVend ==
    ColunaDe(AbaRca, <<"MESMO VEND", "MESMO_VEND", "MESMO VENDEDOR", "NOME UNIFICADO",
                       "VENDEDOR UNIFICADO">>)

SemCelulaVazia(df, colunas) ==
    \A i \in DOMAIN df.rows : \A c \in colunas : ~isna(df.rows[i][c])

\* C8: with a reference table that has a raw-code and a raw-name column and no
\* explicit unification column, every raw code is mapped to (pivot, name): name
\* is the name on a row of that code and pivot is the code of the first row, in
\* row order, that carries that name.
C8_UnificacaoPorNome ==
    ( /\ df_inadimplencia.ok
      /\ AbaRca.ok
      /\ ~isna(ColunaCodigo) /\ ~isna(ColunaNome)
      /\ isna(ColunaMesmoCod) /\ isna(ColunaMesmoVend)
      /\ SemCelulaVazia(AbaRca, {ColunaCodigo, ColunaNome}) )
    => \A i \in DOMAIN AbaRca.rows :
           LET k == AbaRca.rows[i][ColunaCodigo]
           IN  /\ k \in DOMAIN mapa.cod
               /\ k \in DOMAIN mapa.nome
               /\ \E j \in DOMAIN AbaRca.rows :
                      LET nome == AbaRca.rows[j][ColunaNome]
                          primeira == Min({l \in DOMAIN AbaRca.rows :
                                             AbaRca.rows[l][ColunaNome] = nome})
                      IN  /\ AbaRca.rows[j][ColunaCodigo] = k
                          /\ mapa.nome[k] = nome
                          /\ mapa.cod[k] = AbaRca.rows[primeira][ColunaCodigo]

\* C9: when the reference table has a raw-code column together with both a
\* same-code-as and a same-person-as column, the identity map is exactly the
\* direct mapping raw code -> (target code, target name) read from those
\* columns, a raw-name column being present or not.
C9_MapeamentoExplicito ==
    ( /\ df_inadimplencia.ok
      /\ AbaRca.ok
      /\ ~isna(ColunaCodigo) /\ ~isna(ColunaMesmoCod) /\ ~isna(ColunaMesmoVend)
      /\ SemCelulaVazia(AbaRca, {ColunaCodigo, ColunaMesmoCod, ColunaMesmoVend}) )
    => /\ DOMAIN mapa.cod = {AbaRca.rows[i][ColunaCodigo] : i \in DOMAIN AbaRca.rows}
       /\ DOMAIN mapa.nome = DOMAIN mapa.cod
       /\ \A k \in DOMAIN mapa.cod :
              \E j \in DOMAIN AbaRca.rows :
                  /\ AbaRca.rows[j][ColunaCodigo] = k
                  /\ mapa.cod[k] = AbaRca.rows[j][ColunaMesmoCod]
                  /\ mapa.nome[k] = AbaRca.rows[j][ColunaMesmoVend]

\* C10: applying the identity map is a total lookup with an identity default:
\* a record whose salesperson code, as a string, is a key of the map gets the
\* mapped unified code and unified name; any other record gets its own
\* salesperson code and its own salesperson name; with an empty map every
\* record gets its own salesperson code.
C10_LookupComPadraoIdentidade ==
    df_inadimplencia.ok =>
        \A i \in DOMAIN df_inadimplencia.rows :
            LET r == df_inadimplencia.rows[i]
                k == IF isna(r["COD_VENDEDOR"]) THEN "nan" ELSE r["COD_VENDEDOR"]
            IN  /\ DOMAIN mapa.cod = DOMAIN mapa.nome
                /\ k \in DOMAIN mapa.nome =>
                       /\ r["COD_UNIFICADO"] = mapa.cod[k]
                       /\ r["NOME_UNIFICADO"] = mapa.nome[k]
                /\ k \notin DOMAIN mapa.nome =>
                       /\ r["COD_UNIFICADO"] = k
                       /\ r["NOME_UNIFICADO"] = r["NOME_VENDEDOR"]
                /\ DOMAIN mapa.nome = {} => r["COD_UNIFICADO"] = k

\* A record whose code is a key and is unified under another code, next to a
\* record whose code is not a key and keeps its own code and name.
C10_Witness ==
    /\ df_inadimplencia.ok
    /\ \E i, j \in DOMAIN df_inadimplencia.rows :
          LET r == df_inadimplencia.rows[i]
              q == df_inadimplencia.rows[j]
          IN  /\ r["COD_VENDEDOR"] \in DOMAIN mapa.nome
              /\ r["COD_VENDEDOR"] = "102"
              /\ r["COD_UNIFICADO"] = "101"
              /\ r["NOME_UNIFICADO"] = "Alice"
              /\ q["COD_VENDEDOR"] \notin DOMAIN mapa.nome
              /\ q["COD_UNIFICADO"] = q["COD_VENDEDOR"]
              /\ q["NOME_UNIFICADO"] = q["NOME_VENDEDOR"]

\* The reference sheet gives no identity map: it is not in the workbook, or it
\* has no row, no raw-code column, or neither both explicit columns nor a
\* raw-name column.
SemMapaDeIdentidade ==
    \/ ~AbaRca.ok
    \/ AbaRca.rows = <<>>
    \/ isna(ColunaCodigo)
    \/ (isna(ColunaMesmoCod) \/ isna(ColunaMesmoVend)) /\ isna(ColunaNome)

\* The delinquency sheet is one the load can normalize (lines 139-187): it has
\* rows and the column mapping gives a table with a salesperson code.
InadiNormalizavel ==
    /\ AbaInadi.ok
    /\ ~empty(AbaInadi)
    /\ mapear_colunas(AbaInadi).ok
    /\ tem_coluna(mapear_colunas(AbaInadi), "COD_VENDEDOR")

\* C11: when the reference table yields no identity map (no reference sheet,
\* or neither supported column shape), the report build does not fail:
\* obter_dados_inadimplencia returns the normalized table, and every record
\* has its own code (as a string) as unified code and its own name as unified
\* name.
C11_SemMapaMantemProprios ==
    (pc # "inicio" /\ InadiNormalizavel /\ SemMapaDeIdentidade) =>
        /\ df_inadimplencia.ok
        /\ resposta # "pagina_upload"
        /\ Len(df_inadimplencia.rows) = Len(AbaInadi.rows)
        /\ \A i \in DOMAIN df_inadimplencia.rows :
               LET r == df_inadimplencia.rows[i]
                   n == mapear_colunas(AbaInadi).rows[i]
               IN  /\ r["COD_UNIFICADO"] = astype_str(r["COD_VENDEDOR"])
                   /\ r["NOME_UNIFICADO"] = r["NOME_VENDEDOR"]
                   /\ \A c \in DOMAIN n : r[c] = n[c]

\* A workbook with no reference sheet, loaded: the record of code 102 keeps
\* 102 and its own name.
C11_Witness ==
    /\ pc = "dados"
    /\ InadiNormalizavel
    /\ ~AbaRca.ok
    /\ mapa = MapaVazio
    /\ \E i \in DOMAIN df_inadimplencia.rows :
           /\ df_inadimplencia.rows[i]["COD_VENDEDOR"] = "102"
           /\ df_inadimplencia.rows[i]["COD_UNIFICADO"] = "102"
           /\ df_inadimplencia.rows[i]["NOME_UNIFICADO"]
                  = df_inadimplencia.rows[i]["NOME_VENDEDOR"]

\* The reference sheet is missing, or lacks the columns an identity map is
\* read from.
BaseRcaIndisponivel ==
    \/ ~AbaRca.ok
    \/ isna(ColunaCodigo)
    \/ (isna(ColunaMesmoCod) \/ isna(ColunaMesmoVend)) /\ isna(ColunaNome)

\* C12: every report build in which the unification degrades to each record's
\* own code and name because the reference sheet is missing, unreadable or
\* lacks recognizable columns has logged a warning about it by the time
\* obter_dados_inadimplencia has returned.
C12_DegradacaoComAviso ==
    (pc # "inicio" /\ df_inadimplencia.ok /\ BaseRcaIndisponivel) =>
        "warning: BASE_RCA sem colunas padrao" \in Range(log)

\* The candidates of the delinquency role, by their place in the list, whose
\* spelling is the normalized name of a sheet of the workbook.
InadiCandidatasPresentes ==
    LET normais == {_norm(chars(planilha.abas[j].nome)) : j \in DOMAIN planilha.abas}
    IN  {i \in DOMAIN candidatos_inadi : chars(candidatos_inadi[i]) \in normais}

TemAbas == planilha.existe /\ Len(planilha.abas) > 0

\* C13: when some candidate of the delinquency role is the normalized name of
\* a sheet, the sheet read is a sheet of the workbook, under its original
\* name, whose normalized name is the first such candidate in list order,
\* whatever the order of the sheets in the workbook.
C13_PrimeiraCandidata ==
    (pc # "inicio" /\ TemAbas /\ InadiCandidatasPresentes # {}) =>
        /\ aba_inadi \in Range(sheet_names(planilha))
        /\ _norm(chars(aba_inadi)) = chars(candidatos_inadi[Min(InadiCandidatasPresentes)])

\* The sheet of the later candidate INAD comes first in the workbook and the
\* sheet 'Base Inadi' of the first candidate is the one read.
C13_Witness ==
    /\ pc = "dados"
    /\ Len(planilha.abas) >= 2
    /\ planilha.abas[1].nome = "INAD"
    /\ aba_inadi = "Base Inadi"

\* C14: when no candidate of the delinquency role is the normalized name of
\* any sheet of a workbook that has sheets, the sheet read is the first sheet
\* in workbook order, a warning is logged, and the build goes on with that
\* sheet: it returns a table whenever the sheet is one the load can normalize.
C14_PrimeiraAbaComAviso ==
    (pc # "inicio" /\ TemAbas /\ InadiCandidatasPresentes = {}) =>
        /\ aba_inadi = planilha.abas[1].nome
        /\ log # <<>>
        /\ log[1] = "warning: aba BASE_INADI nao encontrada"
        /\ InadiNormalizavel => df_inadimplencia.ok

\* The workbook [Sheet1, Data]: Sheet1 is read, with the warning, and loaded.
C14_Witness ==
    /\ pc = "dados"
    /\ sheet_names(planilha) = <<"Sheet1", "Data">>
    /\ aba_inadi = "Sheet1"
    /\ log = <<"warning: aba BASE_INADI nao encontrada">>
    /\ df_inadimplencia.ok

\* The candidates of the reference role, by their place in the list, whose
\* spelling is the normalized name of a sheet of the workbook.
RcaCandidatasPresentes ==
    LET normais == {_norm(chars(planilha.abas[j].nome)) : j \in DOMAIN planilha.abas}
    IN  {i \in DOMAIN candidatos_rca : chars(candidatos_rca[i]) \in normais}

Canonicas == {LegadoParaCanonico[l] : l \in DOMAIN LegadoParaCanonico}

\* C16: in the table the load returns, every legacy column of the delinquency
\* sheet (RCA, VALOR, DIAS, CLIENTE, VENC, DUPLIC) is found under its
\* canonical name with the cells of the sheet and no longer under the legacy
\* name, whichever other legacy columns the sheet has, and every column the
\* sheet carries under a canonical name is left as it is.
C16_RenomeiaCadaLegada ==
    (pc # "inicio" /\ df_inadimplencia.ok) =>
        \A c \in Range(AbaInadi.cols) :
            /\ c \in DOMAIN LegadoParaCanonico =>
                   /\ ~tem_coluna(df_inadimplencia, c)
                   /\ tem_coluna(df_inadimplencia, LegadoParaCanonico[c])
                   /\ \A i \in DOMAIN AbaInadi.rows :
                          df_inadimplencia.rows[i][LegadoParaCanonico[c]] = AbaInadi.rows[i][c]
            /\ c \in Canonicas =>
                   /\ tem_coluna(df_inadimplencia, c)
                   /\ \A i \in DOMAIN AbaInadi.rows :
                          df_inadimplencia.rows[i][c] = AbaInadi.rows[i][c]

\* The canonical fields that have a default.
CamposComPadrao ==
    {"NOME_VENDEDOR", "COD_CLIENTE", "NOME_CLIENTE", "DATA_VENCIMENTO", "STATUS_TITULO",
     "VALOR_PAGO", "DATA_PAGAMENTO", "OBSERVACOES"}

\* The default of field c for the row linha of the renamed table.
PadraoDe(c, linha) ==
    CASE c = "NOME_VENDEDOR" ->
             IF "NOME_RCA" \in DOMAIN linha THEN linha["NOME_RCA"]
             ELSE "Vendedor " \o astype_str(linha["COD_VENDEDOR"])
      [] c = "COD_CLIENTE" -> "Cliente"
      [] c = "NOME_CLIENTE" -> "Cliente"
      [] c = "DATA_VENCIMENTO" -> strftime(Hoje - linha["DIAS_ATRASO"].v)
      [] c = "STATUS_TITULO" -> "EM ABERTO"
      [] c = "VALOR_PAGO" -> Num(0)
      [] c = "DATA_PAGAMENTO" -> NULL
      [] c = "OBSERVACOES" -> ""

\* The salesperson name of row i is rewritten after the defaults, by the name
\* the reference sheet gives the code of the row (lines 215-218).
NomeReescrito(i) ==
    /\ AbaRca.ok
    /\ astype_str(df_inadimplencia.rows[i]["COD_VENDEDOR"]) \in DOMAIN mapa_rca_nome(AbaRca)

\* C17: in the table the load returns, a field with a default that the table
\* lacks after the renaming has its default in every row (the name copied from
\* NOME_RCA when the sheet has it, else built from the code; 'Cliente' for the
\* client code and name; the build day minus the overdue days; 'EM ABERTO';
\* 0; null; the empty text), and a field the table has after the renaming
\* keeps the cells of the sheet. The salesperson name is compared on the rows
\* whose name the reference sheet does not rewrite afterwards.
C17_PadroesSoQuandoAusente ==
    (pc # "inicio" /\ df_inadimplencia.ok) =>
        \A c \in CamposComPadrao : \A i \in DOMAIN df_inadimplencia.rows :
            \/ c = "NOME_VENDEDOR" /\ NomeReescrito(i)
            \/ df_inadimplencia.rows[i][c]
                   = IF tem_coluna(renomear(AbaInadi), c)
                     THEN renomear(AbaInadi).rows[i][c]
                     ELSE PadraoDe(c, renomear(AbaInadi).rows[i])

\* A sheet with NOME_RCA and a status column and without name, client and
\* due-date columns: the name is copied, the client and the due date get
\* their defaults, and the status of the sheet is kept.
C17_Witness ==
    /\ pc = "dados"
    /\ tem_coluna(AbaInadi, "NOME_RCA") /\ tem_coluna(AbaInadi, "STATUS_TITULO")
    /\ ~tem_coluna(AbaInadi, "NOME_VENDEDOR") /\ ~tem_coluna(AbaInadi, "COD_CLIENTE")
    /\ ~tem_coluna(AbaInadi, "DATA_VENCIMENTO") /\ ~tem_coluna(AbaInadi, "VENC")
    /\ df_inadimplencia.rows[1]["NOME_VENDEDOR"] = "Zed"
    /\ df_inadimplencia.rows[1]["COD_CLIENTE"] = "Cliente"
    /\ df_inadimplencia.rows[1]["DATA_VENCIMENTO"] = "dia 90"
    /\ df_inadimplencia.rows[1]["STATUS_TITULO"] = "PAGO"

\* The delinquency sheet has rows, gives the overdue days only under the
\* legacy header DIAS and has no due-date column under either header.
SoDiasLegado ==
    /\ AbaInadi.ok /\ ~empty(AbaInadi)
    /\ tem_coluna(AbaInadi, "DIAS") /\ ~tem_coluna(AbaInadi, "DIAS_ATRASO")
    /\ ~tem_coluna(AbaInadi, "VENC") /\ ~tem_coluna(AbaInadi, "DATA_VENCIMENTO")

\* C18: the renaming comes before the defaults, so a sheet that gives the
\* overdue days only under DIAS and has no due-date column is returned with,
\* in every row, the overdue days under DIAS_ATRASO and the due date equal to
\* the build day minus the overdue days of the row.
C18_VencimentoDeDiasLegado ==
    (pc # "inicio" /\ SoDiasLegado) =>
        /\ df_inadimplencia.ok
        /\ \A i \in DOMAIN AbaInadi.rows :
               /\ df_inadimplencia.rows[i]["DIAS_ATRASO"] = AbaInadi.rows[i]["DIAS"]
               /\ df_inadimplencia.rows[i]["DATA_VENCIMENTO"]
                      = strftime(Hoje - AbaInadi.rows[i]["DIAS"].v)

\* The delinquency sheet has rows and has neither an overdue-days column nor
\* a due-date column, under the canonical or the legacy header.
SemDiasNemVencimento ==
    /\ AbaInadi.ok /\ ~empty(AbaInadi)
    /\ ~tem_coluna(AbaInadi, "DIAS") /\ ~tem_coluna(AbaInadi, "DIAS_ATRASO")
    /\ ~tem_coluna(AbaInadi, "VENC") /\ ~tem_coluna(AbaInadi, "DATA_VENCIMENTO")

\* C19: a delinquency sheet with neither an overdue-days column nor a
\* due-date column makes the load fail as a whole: obter_dados_inadimplencia
\* logs the error and returns None, not a partly normalized table, and the
\* build ends with no aggregated table and no report (the route answers with
\* the upload page).
C19_SemDiasNemVencimentoFalha ==
    (pc # "inicio" /\ SemDiasNemVencimento) =>
        /\ df_inadimplencia = None
        /\ df_metricas = None
        /\ pc = "fim"
        /\ resposta = "pagina_upload"
        /\ log # <<>> /\ log[Len(log)] = "error: obter dados"

\* A sheet with a code, a name and a value and no days nor due date, after
\* the build.
C19_Witness ==
    /\ SemDiasNemVencimento
    /\ tem_coluna(AbaInadi, "COD_VENDEDOR") /\ tem_coluna(AbaInadi, "NOME_VENDEDOR")
    /\ tem_coluna(AbaInadi, "VALOR_TITULO")
    /\ pc = "fim"
    /\ df_inadimplencia = None
    /\ resposta = "pagina_upload"

\* ------------------------------------------------------------ claims on _norm
\* C20: _norm is idempotent: applied to its own result it gives that result
\* again, for every name, tabs and newlines next to spaces or underscores
\* included.
C20_NormIdempotente ==
    Len(normalizado) >= 2 => normalizado[2] = normalizado[1]

\* C23: the identity unification only adds the two unified columns: in the
\* table the load returns, the salesperson code and the salesperson name of
\* every record are the ones the column mapping gave the row of the sheet,
\* whatever the reference sheet contains.
C23_UnificacaoSoAcrescenta ==
    (pc # "inicio" /\ df_inadimplencia.ok) =>
        \A i \in DOMAIN df_inadimplencia.rows :
            /\ df_inadimplencia.rows[i]["COD_VENDEDOR"]
                   = mapear_colunas(AbaInadi).rows[i]["COD_VENDEDOR"]
            /\ df_inadimplencia.rows[i]["NOME_VENDEDOR"]
                   = mapear_colunas(AbaInadi).rows[i]["NOME_VENDEDOR"]

\* The reference sheet has the name-grouping shape: a raw-code and a raw-name
\* column and no explicit unification column.
FormaPorNome ==
    /\ AbaRca.ok
    /\ ~isna(ColunaCodigo) /\ ~isna(ColunaNome)
    /\ isna(ColunaMesmoCod) /\ isna(ColunaMesmoVend)

\* C25: the aggregated table has at most one row per unified code: with a
\* reference table of the name-grouping shape (one raw code may be on several
\* rows with different names), any two records whose codes are keys of the
\* identity map and whose unified codes are equal have equal unified names.
C25_UmNomePorCodigoUnificado ==
    (pc # "inicio" /\ df_inadimplencia.ok /\ FormaPorNome) =>
        \A i, j \in DOMAIN df_inadimplencia.rows :
            LET r == df_inadimplencia.rows[i]
                q == df_inadimplencia.rows[j]
            IN  ( /\ astype_str(r["COD_VENDEDOR"]) \in DOMAIN mapa.nome
                  /\ astype_str(q["COD_VENDEDOR"]) \in DOMAIN mapa.nome
                  /\ r["COD_UNIFICADO"] = q["COD_UNIFICADO"] )
                => r["NOME_UNIFICADO"] = q["NOME_UNIFICADO"]

\* The sum of QTD_TITULOS over the first n rows of the aggregated table.
RECURSIVE SomaQtdTitulos(_)
SomaQtdTitulos(n) ==
    IF n = 0 THEN 0
    ELSE df_metricas.rows[n].QTD_TITULOS + SomaQtdTitulos(n - 1)

\* C26: aggregation loses no record: the QTD_TITULOS of the aggregated rows
\* add up to the number of records of the input table, and every record,
\* also one with a null unified name or code, is in exactly one group.
C26_AgregacaoNaoPerdeRegistro ==
    pc = "metricas" =>
        /\ SomaQtdTitulos(Len(df_metricas.rows)) = Len(df_inadimplencia.rows)
        /\ \A i \in DOMAIN df_inadimplencia.rows :
               Cardinality({j \in DOMAIN df_metricas.rows :
                               i \in RegistrosDe(df_metricas.rows[j])}) = 1

\* C27: load and aggregation agree on the required columns: every table the
\* load returns is aggregated, the aggregator never answering None for it
\* (also for a source with a due date and no overdue days, or with no invoice
\* value).
C27_TabelaCarregadaAgrega ==
    (df_inadimplencia.ok /\ pc \notin {"inicio", "dados"}) => df_metricas.ok

\* The answers of the route relatorio_geral.
RespostasDaRota == {"pagina_upload", "erro_metricas_500", "erro_relatorio_500", "html"}

\* C21: in the route relatorio_geral a failed load is never rendered: when
\* obter_dados_inadimplencia returns None the route calls neither the
\* aggregator nor the renderer and answers the upload page; when the
\* aggregation fails it answers the error 500 of the metrics and does not
\* render; when the rendering fails it answers the error 500 of the report;
\* the page is answered only for a load, an aggregation and a rendering that
\* all succeeded; and every finished request has one of these answers.
C21_FalhaNuncaRenderizada ==
    /\ (pc # "inicio" /\ ~df_inadimplencia.ok) =>
           /\ pc = "fim" /\ resposta = "pagina_upload"
           /\ ~df_metricas.ok /\ html_content = "" /\ observacoes = SemCarga
    /\ (pc \notin {"inicio", "dados"} /\ df_inadimplencia.ok /\ ~df_metricas.ok) =>
           /\ pc = "fim" /\ resposta = "erro_metricas_500"
           /\ html_content = "" /\ observacoes = SemCarga
    /\ html_content = "None" => (pc = "fim" /\ resposta = "erro_relatorio_500")
    /\ resposta = "html" =>
           /\ pc = "fim" /\ df_inadimplencia.ok /\ df_metricas.ok
           /\ html_content = "html"
    /\ pc = "fim" => resposta \in RespostasDaRota
    /\ pc # "fim" => resposta = ""

\* A workbook was found and its load failed; the upload page was answered.
C21_Witness ==
    /\ pc = "fim" /\ planilha.existe /\ ~df_inadimplencia.ok
    /\ resposta = "pagina_upload"

\* The upload was accepted and stored.
UploadAceito == Upload /\ resposta_upload' = "sucesso"

\* The one file a build must find when an upload is stored.
SoOEnvio == {[pasta |-> "uploads", nome |-> NOME_DO_ENVIO]}

\* C30: downloading the template does not change what the report shows: the
\* files obter_dados_inadimplencia can select (or its failure to find one) are
\* the same right before and right after download_template, for every state
\* of the upload folder; and right after an accepted upload_arquivo the build
\* selects the uploaded workbook.
C30_TemplateNaoMudaRelatorio ==
    [][ /\ DownloadTemplate => arquivo_excel(pasta') = arquivo_excel(pasta)
        /\ UploadAceito => arquivo_excel(pasta') = SoOEnvio ]_vars

\* The cells of the reference sheet the build read, as dict keys.
ChavesDaBaseRca ==
    IF ~AbaRca.ok THEN {}
    ELSE {astype_str(AbaRca.rows[i][c]) :
            i \in DOMAIN AbaRca.rows, c \in Range(AbaRca.cols)}

\* The unified columns of a table, row by row; none for None.
ColunasUnificadas(df) ==
    [i \in DOMAIN df.rows |->
        <<df.rows[i]["COD_UNIFICADO"], df.rows[i]["NOME_UNIFICADO"]>>]

\* This build and the one answered before it read the same workbook.
MesmaPlanilha == pc # "inicio" /\ anterior.feito /\ anterior.planilha = planilha

NotasDe(doc) == IF doc.tipo = "lista" THEN doc.itens ELSE <<>>

\* The note tagged obs is in the list.
TemNota(itens, obs) == \E i \in DOMAIN itens : itens[i].observacao = obs

\* The id salvar_observacao gave the note of thread t.
IdDaNota(t) == chamada[t].atuais.itens[Len(chamada[t].atuais.itens)].id

\* C24: the local notes file is append-only: when a salvar_observacao call
\* has returned, with the calls run one after another, the notes the file
\* held at the call are all still in it, in the same order, and the new note
\* is the last element, whatever the file contained before the call.
C24_ArquivoSoAcrescenta ==
    \A t \in DOMAIN chamada :
        chamada[t].pc = "retornou" =>
            LET a == NotasDe(chamada[t].antes)
                d == NotasDe(arquivo_obs)
            IN  /\ Len(d) = Len(a) + 1
                /\ SubSeq(d, 1, Len(a)) = a
                /\ d[Len(d)].observacao = chamada[t].observacao

\* C28: when two salvar_observacao calls of different threads have both
\* written the local file successfully and returned, the file holds both
\* notes and the two notes have distinct ids, for every interleaving of the
\* steps of the two calls.
C28_SalvamentosConcorrentes ==
    \A t, u \in DOMAIN chamada :
        ( /\ t # u
          /\ chamada[t].pc = "retornou" /\ chamada[t].sucesso_json
          /\ chamada[u].pc = "retornou" /\ chamada[u].sucesso_json )
        => /\ TemNota(NotasDe(arquivo_obs), chamada[t].observacao)
           /\ TemNota(NotasDe(arquivo_obs), chamada[u].observacao)
           /\ IdDaNota(t) # IdDaNota(u)

\* C29: read-your-writes for notes: when salvar_observacao has returned True
\* for a note and carregar_observacoes is the next operation, under the same
\* availability of the backends, the list it returns contains that note.
C29_LeOQueGravou ==
    [][ \A t \in DOMAIN chamada :
          (Carregar /\ chamada[t].pc = "retornou" /\ chamada[t].retorno)
          => TemNota(NotasDe(observacoes'), chamada[t].observacao) ]_vars

====
